---- MODULE Spec2Model ----
(***************************************************************************)
(* Model of the Log class of @kogs/logger.                                 *)
(*                                                                         *)
(* Two variants of the class are modelled over the same state:             *)
(*   - the default-stream variant (pipe(output, levels?, setDefault),      *)
(*     unpipe(output?), addLevel(level, decorator?, addToDefault)),        *)
(*     actions suffixed D, specification SpecD;                            *)
(*   - the variant with level arrays and automatic removal of closed       *)
(*     streams (pipe(streamOrPath, levels = []), unpipe(stream),           *)
(*     level(level, decorator?, stream)), actions suffixed R,              *)
(*     specification SpecR.                                                *)
(*                                                                         *)
(* `out` holds what the last call wrote, in order, as records              *)
(* [stream, data]; data is a record whose kind is "line" for a log line    *)
(* (output + terminator) and "clearLine", "cursorTo", "text" for the       *)
(* terminal handling of the interactive prompt.  `call` names the last     *)
(* call and its arguments.                                                 *)
(***************************************************************************)
EXTENDS Integers, Sequences, FiniteSets, TLC

VARIABLES
    streams,        \* #streams: Map in insertion order, <<[stream, levels]>>
    defaultStream,  \* #defaultStream (default-stream variant only)
    loggingLevels,  \* #loggingLevels
    levelFns,       \* the level functions installed on the instance: name -> decorator
    isPaused,       \* #isPaused
    userPrompt,     \* #userPrompt
    stdin,          \* the listener installed on process.stdin and its typed input
    streamState,    \* each stream: "open" (writable), "ended" (no longer writable,
                    \* 'close' not yet emitted) or "closed" ('close' emitted)
    closeListeners, \* the streams that carry a once('close') listener of the logger
    indentationLevel, \* #indentationLevel
    enableMarkdown, \* enableMarkdown
    indentString,   \* indentString
    bar,            \* the closure of the last progress(): prefix, currentValue, finished
    oldBar,         \* the closure of the progress() before the last one
    variant,        \* which variant of the class the instance is: "D" or "R"
    instances,      \* the fields of each Log instance of a program that has several
    colors,         \* picocolors' isColorSupported
    out,            \* the writes of the last call
    call            \* the last call

vars == <<streams, defaultStream, loggingLevels, levelFns, isPaused, userPrompt,
          stdin, streamState, closeListeners, indentationLevel, enableMarkdown,
          indentString, bar, oldBar, variant, instances,
          colors, out, call>>

\* The settings and the progress closure
settings == <<indentationLevel, enableMarkdown, indentString, bar, oldBar, variant, instances, colors>>

\* The streams' own state, the close listeners and the settings, which the calls
\* of the default-stream variant leave alone.
env == <<streamState, closeListeners, settings>>

----------------------------------------------------------------------------
(* Bounds and input sets *)

\* Most characters typed into a masked prompt.
MaxInput == 2

undefined == "undefined"

stdout == "stdout"
stderr == "stderr"

\* The file streams the callers make with fs.createWriteStream().
FileStreams == {"file"}

Streams == {stdout, stderr} \cup FileStreams

NO_LEVEL == ""

BuiltinLevels == {"info", "warn", "error", "success"}

CustomLevels == {"test"}

\* Names defined on the class itself (its methods), which this[level] finds.
ClassMembersD == BuiltinLevels \cup {"pause", "resume", "write", "pipe", "unpipe", "addLevel",
                                     "progress", "prompt"}

\* The level lists the callers pass to pipe().
PipeLists == {<< >>, <<"warn", "error">>, <<"test">>}

\* The names the callers pass to addLevel() / level().
LevelNames == CustomLevels \cup {"pipe", "default"}

Range(s) == {s[i] : i \in DOMAIN s}

----------------------------------------------------------------------------
(* Map<stream, levels> as a sequence of entries in insertion order *)

MapKeys(m) == {m[i].stream : i \in DOMAIN m}

MapHas(m, k) == k \in MapKeys(m)

MapGet(m, k) == m[CHOOSE i \in DOMAIN m : m[i].stream = k].levels

\* A map whose set() moves the key to the end
MapSet_moveToEnd(m, k, v) ==
    Append(SelectSeq(m, LAMBDA e : e.stream # k), [stream |-> k, levels |-> v])

\* Map.prototype.set: an existing key keeps its position, a new key goes last.
MapSet(m, k, v) ==
    IF MapHas(m, k)
    THEN [i \in DOMAIN m |-> IF m[i].stream = k THEN [stream |-> k, levels |-> v] ELSE m[i]]
    ELSE Append(m, [stream |-> k, levels |-> v])

\* Map.prototype.delete
MapDelete(m, k) == SelectSeq(m, LAMBDA e : e.stream # k)

----------------------------------------------------------------------------
(* Values *)

\* StreamTargets = Set<string> | null
Null == [null |-> TRUE, set |-> {}]

NewSet(list) == [null |-> FALSE, set |-> Range(list)]

\* An optional levels argument of pipe()
Omitted == [omitted |-> TRUE, list |-> << >>]

Given(list) == [omitted |-> FALSE, list |-> list]

PipeArgs == {Omitted} \cup {Given(l) : l \in PipeLists}

\* #userPrompt: undefined, or the prompt message followed by `stars` asterisks
\* or the text of a progress bar (prefix, percentage, colour), or of a choice menu
NoPrompt == [defined |-> FALSE, kind |-> "", message |-> "", stars |-> << >>, value |-> 0,
             color |-> "", entries |-> << >>, margin |-> 0]

PromptText(message, stars) ==
    [defined |-> TRUE, kind |-> "prompt", message |-> message, stars |-> stars, value |-> 0,
     color |-> "", entries |-> << >>, margin |-> 0]

\* prefix + '[' + color('='.repeat(progress)) + ' '.repeat(40 - progress) + '] ' + pct + '%',
\* the value in percent
BarText(prefix, value, color) ==
    [defined |-> TRUE, kind |-> "bar", message |-> prefix, stars |-> << >>, value |-> value,
     color |-> color, entries |-> << >>, margin |-> 0]

\* output.join(' '.repeat(margin)) of a choice menu: the blank first and last
\* elements around the entries
ChoiceText(entries, margin) ==
    [defined |-> TRUE, kind |-> "choice", message |-> "", stars |-> << >>, value |-> 0,
     color |-> "", entries |-> entries, margin |-> margin]

\* process.stdin: no listener, or the key handler of a masked prompt and its input
NoListener == [listener |-> "none", message |-> "", input |-> << >>, choices |-> << >>]

\* What a write carries
\* kind "line": util.format(message, ...args) and the line terminator, the message
\* being the level's prefix (if any) and the caller's message under `decorator`,
\* Markdown-formatted if `markdown`, behind `indent`, the copies of the indent string.
Data(kind, prefix, decorator, prompt, markdown, indent) ==
    [kind |-> kind, prefix |-> prefix, decorator |-> decorator, prompt |-> prompt,
     markdown |-> markdown, indent |-> indent]

Line(prefix, decorator) == Data("line", prefix, decorator, NoPrompt, FALSE, << >>)

LineR(prefix, decorator, markdown, indent) ==
    Data("line", prefix, decorator, NoPrompt, markdown, indent)

ClearLine == Data("clearLine", "", undefined, NoPrompt, FALSE, << >>)

CursorTo == Data("cursorTo", "", undefined, NoPrompt, FALSE, << >>)

Terminator == Data("terminator", "", undefined, NoPrompt, FALSE, << >>)

Text(prompt) == Data("text", "", undefined, prompt, FALSE, << >>)

\* The text of a progress bar and the line terminator
TextLine(prompt) == Data("textLine", "", undefined, prompt, FALSE, << >>)

\* '\r\u001b[K': carriage return and clear to the end of the line
ClearBar == Data("clear", "", undefined, NoPrompt, FALSE, << >>)

\* No progress bar has been made
NoBar == [prefix |-> "", currentValue |-> 0, finished |-> TRUE]

Write(stream, data) == [stream |-> stream, data |-> data]

\* The record of a call: its arguments, its result, and for a call that fails how
\* the error reaches the caller: "throw" (the call throws) or "reject" (the call
\* returns a promise that is rejected)
Call(op, stream, level, flag, result) ==
    [op |-> op, stream |-> stream, level |-> level, levels |-> Omitted, flag |-> flag,
     decorator |-> undefined, amount |-> 0, input |-> 0, key |-> "", choices |-> << >>,
     raised |-> "", self |-> "", result |-> result]

\* The symbol the built-in level functions put in front of the message.
Prefix(level) ==
    CASE level = "info" -> "i"
      [] level = "warn" -> "!"
      [] level = "error" -> "x"
      [] level = "success" -> "ok"
      [] OTHER -> ""

----------------------------------------------------------------------------
(* Default-stream variant: pipe, unpipe, addLevel, #write *)

\* pipe() taking an empty list for an omitted one
pipe_streams_emptyIsNull(m, output, levels) ==
    MapSet(m, output, IF levels.omitted \/ levels.list = << >> THEN Null ELSE NewSet(levels.list))

\* pipe(): this.#streams.set(output, levels === undefined ? null : new Set(levels))
pipe_streams(m, output, levels) ==
    MapSet(m, output, IF levels.omitted THEN Null ELSE NewSet(levels.list))

\* pipe() that never takes the default status away
pipe_default_kept(d, output, setDefault) ==
    IF setDefault THEN output ELSE d

\* pipe(): the new value of #defaultStream
pipe_default(d, output, setDefault) ==
    IF setDefault THEN output
    ELSE IF d = output THEN undefined
    ELSE d

\* unpipe() that ignores a call without argument
unpipe_streams_argOnly(m, output) ==
    IF output = undefined THEN m ELSE MapDelete(m, output)

\* unpipe(): the new value of #streams
unpipe_streams(m, output) ==
    IF output = undefined THEN << >> ELSE MapDelete(m, output)

\* unpipe() that promotes the first remaining sink when the default sink goes
unpipe_default_promoted(d, output) ==
    IF output = undefined THEN undefined
    ELSE IF d = output THEN "stderr"
    ELSE d

\* unpipe() of one sink that leaves the default as it is
unpipe_default_stale(d, output) ==
    IF output = undefined THEN undefined ELSE d

\* unpipe(): the new value of #defaultStream
unpipe_default(d, output) ==
    IF output = undefined THEN undefined
    ELSE IF d = output THEN undefined
    ELSE d

\* this[level] === undefined
IsUndefinedMember(fns, level) == level \notin ClassMembersD /\ level \notin DOMAIN fns

\* addLevel(): the test that admits the name
addLevel_allowed(fns, known, level) ==
    (IsUndefinedMember(fns, level) \/ level \in known) /\ level # "default"

\* addLevel() that adds the level to the default stream whatever addToDefault is
addLevel_streams_always(m, d, level, addToDefault) ==
    IF MapHas(m, d) /\ ~MapGet(m, d).null
    THEN MapSet(m, d, [null |-> FALSE, set |-> MapGet(m, d).set \cup {level}])
    ELSE m

\* addLevel(): this.#streams.get(this.#defaultStream)?.add(level)
addLevel_streams(m, d, level, addToDefault) ==
    IF addToDefault /\ MapHas(m, d) /\ ~MapGet(m, d).null
    THEN MapSet(m, d, [null |-> FALSE, set |-> MapGet(m, d).set \cup {level}])
    ELSE m

\* A registration that keeps the function a name already has
InstallFn_keepFirst(fns, level, decorator) ==
    [n \in DOMAIN fns \cup {level} |-> IF n \in DOMAIN fns THEN fns[n] ELSE decorator]

\* this[level] = (message, ...args) => ...
InstallFn(fns, level, decorator) ==
    [n \in DOMAIN fns \cup {level} |-> IF n = level THEN decorator ELSE fns[n]]

\* #write() without the test of the level set
write_matches_anyLevel(m, level) ==
    IF level # NO_LEVEL THEN m ELSE << >>

\* #write() without the test for NO_LEVEL
write_matches_plainToo(m, level) ==
    SelectSeq(m, LAMBDA e : e.levels.null \/ level \in e.levels.set)

\* #write() whose loop also runs for NO_LEVEL, on the sinks that list it
write_matches_listedPlain(m, level) ==
    SelectSeq(m, LAMBDA e : IF level # NO_LEVEL THEN e.levels.null \/ level \in e.levels.set
                            ELSE ~e.levels.null /\ level \in e.levels.set)

\* #write(): the streams the loop writes to, in iteration order
write_matches(m, level) ==
    IF level # NO_LEVEL
    THEN SelectSeq(m, LAMBDA e : e.levels.null \/ level \in e.levels.set)
    ELSE << >>

\* #write() without the fallback
write_fallback_dropped(hasWritten, d, data) == << >>

\* #write() with a fallback that does not look at hasWritten
write_fallback_always(hasWritten, d, data) ==
    IF d # undefined THEN <<Write(d, data)>> ELSE << >>

\* #write(): the fallback write
write_fallback(hasWritten, d, data) ==
    IF ~hasWritten /\ d # undefined THEN <<Write(d, data)>> ELSE << >>

\* #write(): everything the call writes, in order
write_out(m, d, paused, prompt, level, data) ==
    IF paused THEN << >>
    ELSE LET matched == write_matches(m, level)
             lines == [i \in 1..Len(matched) |-> Write(matched[i].stream, data)]
         IN (IF prompt.defined THEN <<Write(stdout, ClearLine), Write(stdout, CursorTo)>> ELSE << >>)
            \o lines
            \o write_fallback(Len(matched) > 0, d, data)
            \o (IF prompt.defined THEN <<Write(stdout, Text(prompt))>> ELSE << >>)

\* The line a level function hands to #write: the built-in functions put their
\* coloured symbol in front, an installed function applies its decorator.
LevelLine(fns, level) ==
    IF level \in DOMAIN fns THEN Line("", fns[level]) ELSE Line(Prefix(level), undefined)

\* The keys typed into a masked prompt: Enter, Ctrl+C, backspace, a printable
\* character, a key that is neither (an arrow key).
Enter == "<enter>"
CtrlC == "<ctrl-c>"
Backspace == "<backspace>"
Delete == "<delete>"
Keys == {Enter, CtrlC, Backspace, Delete, "a", "b", " ", "<up>", "<tab>"}

\* key.length === 1 && key >= ' '
Printable == {"a", "b", " "}

\* The characters String.prototype.trim removes
Whitespace == {" "}

Messages == {"> "}

Decorators == {undefined, "D"}

InitD ==
    /\ streams = pipe_streams(pipe_streams(<< >>, stdout, Given(<<"info", "success">>)),
                              stderr, Given(<<"warn", "error">>))
    /\ defaultStream = pipe_default(pipe_default(undefined, stdout, TRUE), stderr, FALSE)
    /\ loggingLevels = BuiltinLevels
    /\ levelFns = [n \in {} |-> undefined]
    /\ isPaused = FALSE
    /\ userPrompt = NoPrompt
    /\ stdin = NoListener
    /\ streamState = [s \in Streams |-> "open"]
    /\ closeListeners = {}
    /\ indentationLevel = 0
    /\ enableMarkdown = TRUE
    /\ indentString = "  "
    /\ bar = NoBar
    /\ oldBar = NoBar
    /\ variant = "D"
    /\ instances = << >>
    /\ colors = TRUE
    /\ out = << >>
    /\ call = Call("new", undefined, "", FALSE, undefined)

\* pause()
pause ==
    /\ isPaused' = TRUE
    /\ out' = << >>
    /\ call' = Call("pause", undefined, "", FALSE, undefined)
    /\ UNCHANGED <<streams, defaultStream, loggingLevels, levelFns, userPrompt, stdin,
                   env>>

\* resume()
resume ==
    /\ isPaused' = FALSE
    /\ out' = << >>
    /\ call' = Call("resume", undefined, "", FALSE, undefined)
    /\ UNCHANGED <<streams, defaultStream, loggingLevels, levelFns, userPrompt, stdin,
                   env>>

\* pipe(output, levels, setDefault); a path makes a new file stream
pipeD(output, levels, setDefault) ==
    /\ output = "path" => FileStreams \ MapKeys(streams) # {}
    /\ LET o == IF output = "path"
                THEN CHOOSE f \in FileStreams \ MapKeys(streams) : TRUE
                ELSE output
       IN /\ streams' = pipe_streams(streams, o, levels)
          /\ defaultStream' = pipe_default(defaultStream, o, setDefault)
          /\ call' = [Call("pipe", o, "", setDefault, o) EXCEPT !.levels = levels]
    /\ out' = << >>
    /\ UNCHANGED <<loggingLevels, levelFns, isPaused, userPrompt, stdin, env>>

\* unpipe(output)
unpipeD(output) ==
    /\ streams' = unpipe_streams(streams, output)
    /\ defaultStream' = unpipe_default(defaultStream, output)
    /\ out' = << >>
    /\ call' = Call("unpipe", output, "", FALSE, undefined)
    /\ UNCHANGED <<loggingLevels, levelFns, isPaused, userPrompt, stdin, env>>

\* addLevel(level, decorator, addToDefault); a reserved name throws
addLevelD(level, decorator, addToDefault) ==
    /\ IF addLevel_allowed(levelFns, loggingLevels, level)
       THEN /\ levelFns' = InstallFn(levelFns, level, decorator)
            /\ streams' = addLevel_streams(streams, defaultStream, level, addToDefault)
            /\ loggingLevels' = loggingLevels \cup {level}
            /\ call' = [Call("addLevel", undefined, level, addToDefault, undefined)
                            EXCEPT !.decorator = decorator]
       ELSE /\ UNCHANGED <<levelFns, streams, loggingLevels>>
            /\ call' = [Call("addLevel", undefined, level, addToDefault, "Error")
                            EXCEPT !.decorator = decorator, !.raised = "throw"]
    /\ out' = << >>
    /\ UNCHANGED <<defaultStream, isPaused, userPrompt, stdin, env>>

\* info(), warn(), error(), success() or an installed level function
logD(level) ==
    /\ level \in BuiltinLevels \cup DOMAIN levelFns
    /\ out' = write_out(streams, defaultStream, isPaused, userPrompt, level,
                        LevelLine(levelFns, level))
    /\ call' = Call("log", undefined, level, FALSE, undefined)
    /\ UNCHANGED <<streams, defaultStream, loggingLevels, levelFns, isPaused, userPrompt,
                   stdin, env>>

\* write(): this.#write(NO_LEVEL, message, ...args)
writeD ==
    /\ out' = write_out(streams, defaultStream, isPaused, userPrompt, NO_LEVEL,
                        Line("", undefined))
    /\ call' = Call("write", undefined, NO_LEVEL, FALSE, undefined)
    /\ UNCHANGED <<streams, defaultStream, loggingLevels, levelFns, isPaused, userPrompt,
                   stdin, env>>

\* prompt(message, mask), called while no prompt is waiting for input
promptD(message, mask) ==
    /\ stdin.listener = "none"
    /\ IF mask
       THEN /\ userPrompt' = PromptText(message, << >>)
            /\ out' = <<Write(stdout, Text(PromptText(message, << >>)))>>
            /\ stdin' = [listener |-> "masked", message |-> message, input |-> << >>,
                         choices |-> << >>]
       ELSE /\ UNCHANGED userPrompt
            /\ out' = << >>
            /\ stdin' = [listener |-> "readable", message |-> message, input |-> << >>,
                         choices |-> << >>]
    /\ call' = Call("prompt", undefined, "", mask, undefined)
    /\ UNCHANGED <<streams, defaultStream, loggingLevels, levelFns, isPaused, env>>

\* A masked prompt that shows what was typed
masked_text_echo(input) == input

\* '*'.repeat(input.length)
masked_text(input) == [i \in DOMAIN input |-> "*"]

\* input.trim()
Trim(input) ==
    LET kept == {i \in DOMAIN input : input[i] \notin Whitespace}
    IN IF kept = {} THEN << >>
       ELSE SubSeq(input, CHOOSE i \in kept : \A j \in kept : i <= j,
                          CHOOSE i \in kept : \A j \in kept : i >= j)

\* What a prompt's promise holds: nothing yet, null, or a text
Pending == [resolved |-> FALSE, null |-> FALSE, text |-> << >>]
ResolvedNull == [resolved |-> TRUE, null |-> TRUE, text |-> << >>]
Resolved(text) == [resolved |-> TRUE, null |-> FALSE, text |-> text]

\* A masked prompt that resolves with the input as typed
masked_result_untrimmed(key, input) ==
    IF key = Enter THEN Resolved(input) ELSE ResolvedNull

\* resolve(key === '\r' ? input.trim() : null)
masked_result(key, input) ==
    IF key = Enter THEN Resolved(Trim(input)) ELSE ResolvedNull

\* The input of a masked prompt after a key that does not end it
prompt_input(input, key) ==
    IF key = Backspace \/ key = Delete THEN SubSeq(input, 1, Len(input) - 1)
    ELSE IF key \in Printable THEN Append(input, key)
    ELSE input

\* The 'data' handler of a masked prompt
keyD(key) ==
    /\ stdin.listener = "masked"
    /\ key \in Printable => Len(stdin.input) < MaxInput
    /\ IF key = Enter \/ key = CtrlC
       THEN /\ out' = <<Write(stdout, Terminator)>>
            /\ stdin' = NoListener
            /\ userPrompt' = NoPrompt
            /\ call' = [Call("key", undefined, "", FALSE, masked_result(key, stdin.input))
                            EXCEPT !.key = key, !.amount = Len(stdin.input)]
       ELSE LET input == prompt_input(stdin.input, key)
                prompt == PromptText(stdin.message, masked_text(input))
            IN /\ stdin' = [stdin EXCEPT !.input = input]
               /\ userPrompt' = prompt
               /\ out' = <<Write(stdout, ClearLine), Write(stdout, CursorTo),
                           Write(stdout, Text(prompt))>>
               /\ call' = [Call("key", undefined, "", FALSE, Pending) EXCEPT !.key = key]
    /\ UNCHANGED <<streams, defaultStream, loggingLevels, levelFns, isPaused, env>>

\* The 'readable' handler of an unmasked prompt
readableD ==
    /\ stdin.listener = "readable"
    /\ stdin' = NoListener
    /\ out' = << >>
    /\ call' = Call("readable", undefined, "", FALSE, << >>)
    /\ UNCHANGED <<streams, defaultStream, loggingLevels, levelFns, isPaused, userPrompt,
                   env>>

\* The calls the routing of the default-stream variant is explored with: any
\* configuration of process.stdout and process.stderr, a file piped by its path
\* as a catch-all, a masked prompt that is started and ended.
NextD ==
    \/ pause
    \/ resume
    \/ \E o \in {stdout, stderr}, l \in PipeArgs, d \in BOOLEAN : pipeD(o, l, d)
    \/ \E d \in BOOLEAN : pipeD("path", Omitted, d)
    \/ \E o \in Streams \cup {undefined} : unpipeD(o)
    \/ \E l \in LevelNames, a \in BOOLEAN : addLevelD(l, undefined, a)
    \/ \E l \in BuiltinLevels \cup CustomLevels : logD(l)
    \/ writeD
    \/ \E m \in Messages : promptD(m, TRUE)
    \/ \E k \in {Enter, CtrlC, "<up>"} : keyD(k)

SpecD == InitD /\ [][NextD]_vars

----------------------------------------------------------------------------
(* The streams themselves: stream.end() and the 'close' event *)

\* The once('close') listener of pipe(): () => this.#streams.delete(stream)
close_streams_kept(m, listeners, s) == m

close_streams(m, listeners, s) ==
    IF s \in listeners THEN MapDelete(m, s) ELSE m

\* stream.end(): the stream is no longer writable
streamEnd(s) ==
    /\ streamState[s] = "open"
    /\ streamState' = [streamState EXCEPT ![s] = "ended"]
    /\ out' = << >>
    /\ call' = Call("end", s, "", FALSE, undefined)
    /\ UNCHANGED <<streams, defaultStream, loggingLevels, levelFns, isPaused, userPrompt,
                   stdin, closeListeners, settings>>

\* The stream emits 'close': its once-listeners run and are removed.  The call
\* record's flag tells whether the stream was a registered sink.
streamClose(s) ==
    /\ streamState[s] = "ended"
    /\ streamState' = [streamState EXCEPT ![s] = "closed"]
    /\ streams' = close_streams(streams, closeListeners, s)
    /\ closeListeners' = closeListeners \ {s}
    /\ out' = << >>
    /\ call' = Call("close", s, "", MapHas(streams, s), undefined)
    /\ UNCHANGED <<defaultStream, loggingLevels, levelFns, isPaused, userPrompt, stdin,
                   settings>>

----------------------------------------------------------------------------
(* Variant with level arrays: pipe, unpipe, level, #write *)

\* Names this[level] finds on an instance of this variant: methods and public fields.
ClassMembersR == BuiltinLevels \cup {"pause", "resume", "indent", "outdent", "clearIndentation",
                                     "write", "pipe", "unpipe", "level", "progress", "prompt",
                                     "choice", "enableMarkdown", "indentString",
                                     "lineTerminator"}

\* pipe() that adds the new levels to the ones the stream has
pipeR_streams_added(m, stream, levels) ==
    MapSet(m, stream, IF MapHas(m, stream) THEN MapGet(m, stream) \o levels ELSE levels)

\* pipe(): this.#streams.set(stream, levels)
pipeR_streams(m, stream, levels) == MapSet(m, stream, levels)

\* level() that admits every name
level_allowed_any(fns, known, level) == TRUE

\* level(): the test that admits the name
level_allowed(fns, known, level) ==
    (level \notin ClassMembersR /\ level \notin DOMAIN fns) \/ level \in known

\* level(): streamLevels.push(level) on the target stream
level_streams(m, stream, level) ==
    IF MapHas(m, stream) /\ level \notin Range(MapGet(m, stream))
    THEN MapSet(m, stream, Append(MapGet(m, stream), level))
    ELSE m

\* #write(): stream.writable && levels.length === 0 || levels.includes(level)
writeR_matches(m, state, level) ==
    SelectSeq(m, LAMBDA e : (state[e.stream] = "open" /\ Len(e.levels) = 0)
                            \/ level \in Range(e.levels))

\* A #write() that does not print the overlay again after the lines
writeR_out_noRestore(m, state, paused, prompt, level, data) ==
    IF paused THEN << >>
    ELSE LET matched == writeR_matches(m, state, level)
         IN (IF prompt.defined THEN <<Write(stdout, ClearLine), Write(stdout, CursorTo)>> ELSE << >>)
            \o [i \in 1..Len(matched) |-> Write(matched[i].stream, data)]

\* A #write() that still clears and re-prints the overlay while paused
writeR_out_overlayWhilePaused(m, state, paused, prompt, level, data) ==
    LET matched == IF paused THEN << >> ELSE writeR_matches(m, state, level)
    IN (IF prompt.defined THEN <<Write(stdout, ClearLine), Write(stdout, CursorTo)>> ELSE << >>)
       \o [i \in 1..Len(matched) |-> Write(matched[i].stream, data)]
       \o (IF prompt.defined THEN <<Write(stdout, Text(prompt))>> ELSE << >>)

\* #write(): everything the call writes, in order
writeR_out(m, state, paused, prompt, level, data) ==
    IF paused THEN << >>
    ELSE LET matched == writeR_matches(m, state, level)
         IN (IF prompt.defined THEN <<Write(stdout, ClearLine), Write(stdout, CursorTo)>> ELSE << >>)
            \o [i \in 1..Len(matched) |-> Write(matched[i].stream, data)]
            \o (IF prompt.defined THEN <<Write(stdout, Text(prompt))>> ELSE << >>)

\* An indentation of one copy at every level
indent_prefix_always(str, level) == <<str>>

\* #write(): indentString.repeat(#indentationLevel) in front of the output
indent_prefix(str, level) ==
    IF level > 0 THEN [i \in 1..level |-> str] ELSE << >>

\* A level function whose line never has the Markdown formatting applied
LevelLineR_noMarkdown(fns, level, markdown, indent) ==
    IF level \in DOMAIN fns THEN LineR("", fns[level], FALSE, indent)
    ELSE LineR(Prefix(level), undefined, FALSE, indent)

\* The line a level function hands to #write
LevelLineR(fns, level, markdown, indent) ==
    IF level \in DOMAIN fns THEN LineR("", fns[level], markdown, indent)
    ELSE LineR(Prefix(level), undefined, markdown, indent)

InitR ==
    /\ streams = pipeR_streams(pipeR_streams(<< >>, stdout, <<"info", "success">>),
                               stderr, <<"warn", "error">>)
    /\ defaultStream = undefined
    /\ loggingLevels = BuiltinLevels
    /\ levelFns = [n \in {} |-> undefined]
    /\ isPaused = FALSE
    /\ userPrompt = NoPrompt
    /\ stdin = NoListener
    /\ streamState = [s \in Streams |-> "open"]
    /\ closeListeners = {stdout, stderr}
    /\ indentationLevel = 0
    /\ enableMarkdown = TRUE
    /\ indentString = "  "
    /\ bar = NoBar
    /\ oldBar = NoBar
    /\ variant = "R"
    /\ instances = << >>
    /\ colors = TRUE
    /\ out = << >>
    /\ call = Call("new", undefined, "", FALSE, undefined)

\* pipe(streamOrPath, levels = []); a path makes a new file stream
pipeR(streamOrPath, levels) ==
    /\ streamOrPath = "path" =>
            \E f \in FileStreams : f \notin MapKeys(streams) /\ f \notin closeListeners
    /\ LET stream == IF streamOrPath = "path"
                     THEN CHOOSE f \in FileStreams :
                              f \notin MapKeys(streams) /\ f \notin closeListeners
                     ELSE streamOrPath
           list == IF levels.omitted THEN << >> ELSE levels.list
       IN /\ streams' = pipeR_streams(streams, stream, list)
          /\ closeListeners' = closeListeners \cup {stream}
          /\ streamState' = IF streamOrPath = "path"
                            THEN [streamState EXCEPT ![stream] = "open"]
                            ELSE streamState
          /\ call' = [Call("pipe", stream, "", FALSE, undefined) EXCEPT !.levels = Given(list)]
    /\ out' = << >>
    /\ UNCHANGED <<defaultStream, loggingLevels, levelFns, isPaused, userPrompt, stdin,
                   settings>>

\* unpipe(stream)
unpipeR(stream) ==
    /\ streams' = MapDelete(streams, stream)
    /\ out' = << >>
    /\ call' = Call("unpipe", stream, "", FALSE, undefined)
    /\ UNCHANGED <<defaultStream, loggingLevels, levelFns, isPaused, userPrompt, stdin, env>>

\* level(level, decorator, stream = process.stdout); a reserved name throws
levelR(level, decorator, stream) ==
    /\ IF level_allowed(levelFns, loggingLevels, level)
       THEN /\ levelFns' = InstallFn(levelFns, level, decorator)
            /\ streams' = level_streams(streams, stream, level)
            /\ loggingLevels' = loggingLevels \cup {level}
            /\ call' = [Call("level", stream, level, FALSE, undefined)
                            EXCEPT !.decorator = decorator]
       ELSE /\ UNCHANGED <<levelFns, streams, loggingLevels>>
            /\ call' = [Call("level", stream, level, FALSE, "Error")
                            EXCEPT !.decorator = decorator, !.raised = "throw"]
    /\ out' = << >>
    /\ UNCHANGED <<defaultStream, isPaused, userPrompt, stdin, env>>

\* info(), warn(), error(), success() or an installed level function
logR(level) ==
    /\ level \in BuiltinLevels \cup DOMAIN levelFns
    /\ out' = writeR_out(streams, streamState, isPaused, userPrompt, level,
                         LevelLineR(levelFns, level, enableMarkdown,
                                    indent_prefix(indentString, indentationLevel)))
    /\ call' = Call("log", undefined, level, FALSE, undefined)
    /\ UNCHANGED <<streams, defaultStream, loggingLevels, levelFns, isPaused, userPrompt,
                   stdin, env>>

\* write(): this.#write('info', message, ...args)
\* A write() that hands #write no level name
writeR_unlevelled ==
    /\ out' = writeR_out(streams, streamState, isPaused, userPrompt, NO_LEVEL,
                         LineR("", undefined, enableMarkdown,
                               indent_prefix(indentString, indentationLevel)))
    /\ call' = Call("write", undefined, "info", FALSE, undefined)
    /\ UNCHANGED <<streams, defaultStream, loggingLevels, levelFns, isPaused, userPrompt,
                   stdin, env>>

\* write(message): #write('info', message)
writeR ==
    /\ out' = writeR_out(streams, streamState, isPaused, userPrompt, "info",
                         LineR("", undefined, enableMarkdown,
                               indent_prefix(indentString, indentationLevel)))
    /\ call' = Call("write", undefined, "info", FALSE, undefined)
    /\ UNCHANGED <<streams, defaultStream, loggingLevels, levelFns, isPaused, userPrompt,
                   stdin, env>>

\* An async function whose throw reaches the caller as an exception
async_raise_thrown == "throw"

\* async prompt(), async choice(): a throw in the body rejects the returned promise
async_raise == "reject"

\* prompt(message = '> ', mask); throws while an interactive prompt is active
promptR(message, mask) ==
    /\ IF userPrompt.defined
       THEN /\ UNCHANGED <<userPrompt, stdin>>
            /\ out' = << >>
            /\ call' = [Call("prompt", undefined, "", mask, "Error")
                            EXCEPT !.raised = async_raise]
       ELSE /\ userPrompt' = PromptText(message, << >>)
            /\ out' = <<Write(stdout, Text(PromptText(message, << >>)))>>
            /\ stdin' = [listener |-> IF mask THEN "masked" ELSE "readable",
                         message |-> message, input |-> << >>,
                         choices |-> << >>]
            /\ call' = Call("prompt", undefined, "", mask, undefined)
    /\ UNCHANGED <<streams, defaultStream, loggingLevels, levelFns, isPaused, env>>

\* The 'data' handler of a masked prompt
keyR(key) ==
    /\ stdin.listener = "masked"
    /\ key \in Printable => Len(stdin.input) < MaxInput
    /\ IF key = Enter \/ key = CtrlC
       THEN /\ out' = <<Write(stdout, Terminator)>>
            /\ stdin' = NoListener
            /\ userPrompt' = NoPrompt
            /\ call' = [Call("key", undefined, "", FALSE, masked_result(key, stdin.input))
                            EXCEPT !.key = key, !.amount = Len(stdin.input)]
       ELSE LET input == prompt_input(stdin.input, key)
                prompt == PromptText(stdin.message, masked_text(input))
            IN /\ stdin' = [stdin EXCEPT !.input = input]
               /\ userPrompt' = prompt
               /\ out' = <<Write(stdout, ClearLine), Write(stdout, CursorTo),
                           Write(stdout, Text(prompt))>>
               /\ call' = [Call("key", undefined, "", FALSE, Pending) EXCEPT !.key = key]
    /\ UNCHANGED <<streams, defaultStream, loggingLevels, levelFns, isPaused, env>>

\* The 'readable' handler of an unmasked prompt: #userPrompt stays as it is
readableR ==
    /\ stdin.listener = "readable"
    /\ stdin' = NoListener
    /\ out' = << >>
    /\ call' = Call("readable", undefined, "", FALSE, << >>)
    /\ UNCHANGED <<streams, defaultStream, loggingLevels, levelFns, isPaused, userPrompt, env>>

\* The calls the routing of this variant is explored with.
NextR ==
    \/ pause
    \/ resume
    \/ \E o \in {stdout, stderr}, l \in {<< >>, <<"warn", "error">>} : pipeR(o, Given(l))
    \/ \E o \in FileStreams \cup {"path"}, l \in {Omitted, Given(<<"test">>)} : pipeR(o, l)
    \/ \E o \in Streams : unpipeR(o)
    \/ \E l \in {"test", "level"}, o \in {stdout} \cup FileStreams : levelR(l, undefined, o)
    \/ \E l \in BuiltinLevels \cup CustomLevels : logR(l)
    \/ writeR
    \/ \E m \in Messages : promptR(m, TRUE)
    \/ \E k \in {Enter, "<up>"} : keyR(k)
    \/ \E f \in FileStreams : streamEnd(f)
    \/ \E f \in FileStreams : streamClose(f)

SpecR == InitR /\ [][NextR]_vars

----------------------------------------------------------------------------
(* Variant with level arrays: indentation, Markdown, the line of write() *)

\* Deepest indentation the callers build up
MaxIndent == 2

Max(a, b) == IF a >= b THEN a ELSE b

\* The amounts the callers pass to indent() and outdent()
Amounts == {-1, 1, 2}

IndentStrings == {"  ", "<tab>"}

\* An indentation level without the floor
indent_level_unfloored(level, amount) == level + amount

\* indent(): Math.max(this.#indentationLevel + amount, 0)
indent_level(level, amount) == Max(level + amount, 0)

\* outdent(): Math.max(this.#indentationLevel - amount, 0)
outdent_level(level, amount) == Max(level - amount, 0)

\* indent(amount = 1); the call record's flag tells whether the floor applied
indent(amount) ==
    /\ indent_level(indentationLevel, amount) <= MaxIndent
    /\ indentationLevel' = indent_level(indentationLevel, amount)
    /\ out' = << >>
    /\ call' = [Call("indent", undefined, "", indentationLevel + amount < 0, "this") EXCEPT !.amount = amount]
    /\ UNCHANGED <<streams, defaultStream, loggingLevels, levelFns, isPaused, userPrompt,
                   stdin, streamState, closeListeners, enableMarkdown, indentString, bar,
                   oldBar, variant, instances, colors>>

\* outdent(amount = 1)
outdent(amount) ==
    /\ outdent_level(indentationLevel, amount) <= MaxIndent
    /\ indentationLevel' = outdent_level(indentationLevel, amount)
    /\ out' = << >>
    /\ call' = [Call("outdent", undefined, "", indentationLevel - amount < 0, "this") EXCEPT !.amount = amount]
    /\ UNCHANGED <<streams, defaultStream, loggingLevels, levelFns, isPaused, userPrompt,
                   stdin, streamState, closeListeners, enableMarkdown, indentString, bar,
                   oldBar, variant, instances, colors>>

\* clearIndentation()
clearIndentation ==
    /\ indentationLevel' = 0
    /\ out' = << >>
    /\ call' = Call("clearIndentation", undefined, "", FALSE, undefined)
    /\ UNCHANGED <<streams, defaultStream, loggingLevels, levelFns, isPaused, userPrompt,
                   stdin, streamState, closeListeners, enableMarkdown, indentString, bar,
                   oldBar, variant, instances, colors>>

\* log.indentString = str
setIndentString(str) ==
    /\ indentString' = str
    /\ out' = << >>
    /\ call' = Call("indentString", undefined, "", FALSE, undefined)
    /\ UNCHANGED <<streams, defaultStream, loggingLevels, levelFns, isPaused, userPrompt,
                   stdin, streamState, closeListeners, indentationLevel, enableMarkdown, bar,
                   oldBar, variant, instances, colors>>

\* log.enableMarkdown = flag
setEnableMarkdown(flag) ==
    /\ enableMarkdown' = flag
    /\ out' = << >>
    /\ call' = Call("enableMarkdown", undefined, "", flag, undefined)
    /\ UNCHANGED <<streams, defaultStream, loggingLevels, levelFns, isPaused, userPrompt,
                   stdin, streamState, closeListeners, indentationLevel, indentString, bar,
                   oldBar, variant, instances, colors>>

\* The line of write(message) for a message that is decorator(msg)
write_line(decorator, markdown, indentation) == LineR("", decorator, markdown, indentation)

\* write(decorator(msg)): this.#write('info', message, ...args)
writeWithR(decorator) ==
    /\ out' = writeR_out(streams, streamState, isPaused, userPrompt, "info",
                         write_line(decorator, enableMarkdown,
                                    indent_prefix(indentString, indentationLevel)))
    /\ call' = [Call("write", undefined, "info", FALSE, undefined)
                    EXCEPT !.decorator = decorator]
    /\ UNCHANGED <<streams, defaultStream, loggingLevels, levelFns, isPaused, userPrompt,
                   stdin, env>>

\* The calls the formatting of the lines is explored with
NextFormat ==
    \/ \E a \in Amounts : indent(a)
    \/ \E a \in Amounts : outdent(a)
    \/ clearIndentation
    \/ \E str \in IndentStrings : setIndentString(str)
    \/ \E flag \in BOOLEAN : setEnableMarkdown(flag)
    \/ \E d \in Decorators : levelR("test", d, stdout)
    \/ \E l \in {"info", "warn", "test"} : logR(l)
    \/ writeR
    \/ \E d \in Decorators : writeWithR(d)

SpecFormat == InitR /\ [][NextFormat]_vars

----------------------------------------------------------------------------
(* Variant with level arrays: progress bar and choice menu *)

\* An overlay check that never sees an active overlay
overlay_active_never(prompt) == FALSE

\* this.#userPrompt !== undefined
overlay_active(prompt) == prompt.defined

Min(a, b) == IF a <= b THEN a ELSE b

\* An update() that takes the value as it comes
update_value_unclamped(value) == value

\* update(): Math.min(1, Math.max(0, value)), in percent
update_value(value) == Min(100, Max(0, value))

\* The values the callers pass to progress() and update(), in percent
InitialValues == {0, 50}

UpdateValues == {-50, 0, 50, 100, 150}

Prefixes == {"Loading "}

\* A writeProgress() that is silent while the logger is paused
\* picocolors: pc.yellow, pc.green and pc.red wrap the text in their escape codes
\* when colours are supported and are the identity when they are not
pc(color) == IF colors THEN color ELSE "none"

\* The width of the bar in cells
Cells == 40

\* Math.round(currentValue * 40), the value in percent
fill(value) == (4 * value + 5) \div 10

\* String.prototype.repeat throws a RangeError on a negative count
render_fails(value) == fill(value) < 0 \/ Cells - fill(value) < 0

writeProgress_out_unlessPaused(b, prompt, value, color, finish, first) ==
    IF b.finished \/ isPaused THEN << >>
    ELSE LET text == BarText(b.prefix, value, pc(color))
             changed == text # prompt
         IN (IF ~first /\ changed THEN <<Write(stdout, ClearBar)>> ELSE << >>)
            \o (IF finish THEN <<Write(stdout, TextLine(text))>>
                ELSE IF changed THEN <<Write(stdout, Text(text))>>
                ELSE << >>)

\* writeProgress(): what it writes to process.stdout
writeProgress_out(b, prompt, value, color, finish, first) ==
    IF b.finished THEN << >>
    ELSE LET text == BarText(b.prefix, value, pc(color))
             changed == text # prompt
         IN (IF ~first /\ changed THEN <<Write(stdout, ClearBar)>> ELSE << >>)
            \o (IF finish THEN <<Write(stdout, TextLine(text))>>
                ELSE IF changed THEN <<Write(stdout, Text(text))>>
                ELSE << >>)

\* A writeProgress() that clears #userPrompt again when a finished bar is finished
writeProgress_prompt_afterFinish(b, prompt, value, color, finish) ==
    IF finish THEN NoPrompt
    ELSE IF b.finished THEN prompt
    ELSE BarText(b.prefix, value, pc(color))

\* writeProgress(): the new value of #userPrompt
writeProgress_prompt(b, prompt, value, color, finish) ==
    IF b.finished THEN prompt
    ELSE IF finish THEN NoPrompt
    ELSE BarText(b.prefix, value, pc(color))

\* writeProgress(): the new values of currentValue and finished
writeProgress_bar(b, value, finish) ==
    IF b.finished THEN b
    ELSE [b EXCEPT !.currentValue = value, !.finished = finish]

\* progress(prefix, initialPct = 0); throws while an interactive prompt is active
progress(prefix, initialPct) ==
    /\ IF overlay_active(userPrompt)
       THEN /\ UNCHANGED <<userPrompt, bar, oldBar>>
            /\ out' = << >>
            /\ call' = [Call("progress", undefined, "", FALSE, "Error")
                            EXCEPT !.amount = initialPct, !.raised = "throw"]
       ELSE IF render_fails(initialPct)
       THEN /\ UNCHANGED <<userPrompt, bar, oldBar>>
            /\ out' = << >>
            /\ call' = [Call("progress", undefined, "", FALSE, "RangeError")
                            EXCEPT !.amount = initialPct, !.raised = "throw"]
       ELSE LET b == [prefix |-> prefix, currentValue |-> 0, finished |-> FALSE]
            IN /\ out' = writeProgress_out(b, userPrompt, initialPct, "yellow", FALSE, TRUE)
               /\ userPrompt' = writeProgress_prompt(b, userPrompt, initialPct, "yellow", FALSE)
               /\ bar' = writeProgress_bar(b, initialPct, FALSE)
               /\ oldBar' = bar
               /\ call' = [Call("progress", undefined, "", FALSE, undefined)
                               EXCEPT !.amount = initialPct]
    /\ UNCHANGED <<streams, defaultStream, loggingLevels, levelFns, isPaused, stdin,
                   streamState, closeListeners, indentationLevel, enableMarkdown, indentString,
                   variant, instances, colors>>

\* A call of writeProgress() through the controller of the last progress bar;
\* the call record's flag tells whether the bar was unfinished
controller(op, input, value, color, finish) ==
    /\ bar # NoBar
    /\ out' = writeProgress_out(bar, userPrompt, value, color, finish, FALSE)
    /\ userPrompt' = writeProgress_prompt(bar, userPrompt, value, color, finish)
    /\ bar' = writeProgress_bar(bar, value, finish)
    /\ call' = [Call(op, undefined, "", ~bar.finished, undefined)
                    EXCEPT !.amount = value, !.input = input]
    /\ UNCHANGED <<streams, defaultStream, loggingLevels, levelFns, isPaused, stdin,
                   streamState, closeListeners, indentationLevel, enableMarkdown, indentString,
                   oldBar, variant, instances, colors>>

\* The same call through the controller of the progress bar before the last one;
\* the call record's level says that it is that controller
controllerOld(op, input, value, color, finish) ==
    /\ oldBar # NoBar
    /\ out' = writeProgress_out(oldBar, userPrompt, value, color, finish, FALSE)
    /\ userPrompt' = writeProgress_prompt(oldBar, userPrompt, value, color, finish)
    /\ oldBar' = writeProgress_bar(oldBar, value, finish)
    /\ call' = [Call(op, undefined, "previous", ~oldBar.finished, undefined)
                    EXCEPT !.amount = value, !.input = input]
    /\ UNCHANGED <<streams, defaultStream, loggingLevels, levelFns, isPaused, stdin,
                   streamState, closeListeners, indentationLevel, enableMarkdown, indentString,
                   bar, variant, instances, colors>>

\* An update() that leaves the finishing to finish()
update_noAutoFinish(value) ==
    controller("update", value, update_value(value), "yellow", FALSE)

\* update(value)
update(value) ==
    LET v == update_value(value)
        autoFinish == v = 100
    IN controller("update", value, v, IF autoFinish THEN "green" ELSE "yellow", autoFinish)

\* cancel()
cancel == controller("cancel", 0, bar.currentValue, "red", TRUE)

\* finish()
finish == controller("finish", 0, 100, "green", TRUE)

\* update(value), cancel(), finish() of the progress bar before the last one
updateOld(value) ==
    LET v == update_value(value)
        autoFinish == v = 100
    IN controllerOld("update", value, v, IF autoFinish THEN "green" ELSE "yellow", autoFinish)

cancelOld == controllerOld("cancel", 0, oldBar.currentValue, "red", TRUE)

finishOld == controllerOld("finish", 0, 100, "green", TRUE)

\* The characters of the labels and their lower case
Lower(c) ==
    CASE c = "Y" -> "y"
      [] c = "N" -> "n"
      [] c = "B" -> "b"
      [] c = "R" -> "r"
      [] c = "C" -> "c"
      [] OTHER -> c

Letters == {"a", "b", "c", "d", "e", "f", "g", "h", "i", "j", "k", "l", "m", "n", "o", "p",
            "q", "r", "s", "t", "u", "v", "w", "x", "y", "z"}

\* choice.label.toLowerCase().match(/[a-z]/)?.[0]
FirstLetter(label) ==
    LET at == {i \in DOMAIN label : Lower(label[i]) \in Letters}
    IN IF at = {} THEN undefined
       ELSE Lower(label[CHOOSE i \in at : \A j \in at : i <= j])

\* choiceNumber.toString()
NumberString(n) == <<"1", "2", "3", "4", "5", "6", "7", "8", "9">>[n]

\* A number key that is the position, in use or not
NumberKey_position(n, assigned) == NumberString(n)

\* The first of n, n + 1, ... whose string is not an assigned key
RECURSIVE NumberKey(_, _)
NumberKey(n, assigned) ==
    IF NumberString(n) \in assigned THEN NumberKey(n + 1, assigned) ELSE NumberString(n)

\* The keys the user has defined
\* Key generation that does not reserve the explicit keys first
ExplicitKeys_none(choices) == {}

\* The keys the first loop collects: those the caller gave
ExplicitKeys(choices) ==
    {choices[i].key : i \in {j \in DOMAIN choices : choices[j].key # undefined}}

\* A check that finds no duplicate
DuplicateKey_never(choices) == FALSE

\* Two choices carry the same explicit key
DuplicateKey(choices) ==
    \E i, j \in DOMAIN choices :
        i < j /\ choices[i].key # undefined /\ choices[i].key = choices[j].key

\* The key of choice i, the choices before it having theirs
NewKey(choices, i, assigned) ==
    IF choices[i].key # undefined THEN choices[i].key
    ELSE LET letter == FirstLetter(choices[i].label)
         IN IF letter = undefined \/ letter \in assigned
            THEN NumberKey(i, assigned)
            ELSE letter

\* The choices from i on with their keys, `assigned` being the keys in use
RECURSIVE AssignKeys(_, _, _)
AssignKeys(choices, i, assigned) ==
    IF i > Len(choices) THEN << >>
    ELSE LET key == NewKey(choices, i, assigned)
         IN <<[choices[i] EXCEPT !.key = key]>>
            \o AssignKeys(choices, i + 1, assigned \cup {key})

\* The menu entries: `(${choice.key}) ${choice.label}` or the label alone
Entries(parsed, prependKey) ==
    [i \in DOMAIN parsed |->
        [key |-> IF prependKey THEN parsed[i].key ELSE undefined, label |-> parsed[i].label]]

\* A choice's optional value: absent, or the value given
NoValue == [defined |-> FALSE, is |-> << >>]
Value(v) == [defined |-> TRUE, is |-> v]

MakeChoice(label, key, value) == [label |-> label, key |-> key, value |-> value]

\* The lists of choices the callers pass
Blue == <<"B", "l", "u", "e">>
Red == <<"R", "e", "d">>
Continue == <<"C", "o", "n", "t", "i", "n", "u", "e">>
Cancel == <<"C", "a", "n", "c", "e", "l">>

BlueRed == <<MakeChoice(Blue, undefined, NoValue), MakeChoice(Red, undefined, NoValue)>>

ContinueCancel ==
    <<MakeChoice(Continue, undefined, NoValue), MakeChoice(Cancel, undefined, NoValue)>>

ChoiceLists ==
    {<< >>,
     <<MakeChoice(<<"Y">>, undefined, NoValue), MakeChoice(<<"N">>, undefined, Value(<<"n", "o">>))>>,
     <<MakeChoice(<<"Y">>, "n", NoValue), MakeChoice(<<"N">>, "n", NoValue)>>,
     BlueRed,
     ContinueCancel,
     <<MakeChoice(Continue, undefined, NoValue), MakeChoice(Cancel, undefined, NoValue),
       MakeChoice(Red, "2", NoValue)>>,
     <<MakeChoice(<<"1", "0">>, undefined, NoValue), MakeChoice(Cancel, undefined, NoValue),
       MakeChoice(Continue, "c", NoValue)>>,
     <<MakeChoice(<<"1", "0">>, undefined, NoValue), MakeChoice(Cancel, "1", NoValue)>>}

\* choice(choices, options); throws on an empty list, while an interactive
\* prompt is active, on a duplicate key
choice(choices, margin, prependKey) ==
    /\ IF choices = << >> \/ overlay_active(userPrompt) \/ DuplicateKey(choices)
       THEN /\ UNCHANGED <<userPrompt, stdin>>
            /\ out' = << >>
            /\ call' = [Call("choice", undefined, "", prependKey, "Error")
                            EXCEPT !.amount = Len(choices), !.choices = choices,
                                   !.raised = async_raise]
       ELSE LET parsed == AssignKeys(choices, 1, ExplicitKeys(choices))
                text == ChoiceText(Entries(parsed, prependKey), margin)
            IN /\ userPrompt' = text
               /\ out' = <<Write(stdout, Text(text))>>
               /\ stdin' = [listener |-> "choice", message |-> "", input |-> << >>,
                            choices |-> parsed]
               /\ call' = [Call("choice", undefined, "", prependKey, undefined)
                               EXCEPT !.amount = Len(choices), !.choices = choices]
    /\ UNCHANGED <<streams, defaultStream, loggingLevels, levelFns, isPaused, env>>

\* A choice that always resolves with its label
choice_result_label(c) == c.label

\* resolve(choice.value ?? choice.label)
choice_result(c) == IF c.value.defined THEN c.value.is ELSE c.label

\* The 'data' handler of a choice menu; Ctrl+C ends the process
choiceKey(key) ==
    /\ stdin.listener = "choice"
    /\ key # CtrlC
    /\ LET hit == {i \in DOMAIN stdin.choices : stdin.choices[i].key = key}
       IN IF hit # {}
          THEN LET c == stdin.choices[CHOOSE i \in hit : TRUE]
               IN /\ out' = <<Write(stdout, Terminator)>>
                  /\ stdin' = NoListener
                  /\ userPrompt' = NoPrompt
                  /\ call' = [Call("choiceKey", undefined, "", TRUE, choice_result(c))
                                  EXCEPT !.key = key]
          ELSE /\ out' = << >>
               /\ UNCHANGED <<stdin, userPrompt>>
               /\ call' = [Call("choiceKey", undefined, "", FALSE, undefined)
                               EXCEPT !.key = key]
    /\ UNCHANGED <<streams, defaultStream, loggingLevels, levelFns, isPaused, env>>

\* The calls the overlays are explored with
NextOverlay ==
    \/ pause
    \/ resume
    \/ \E l \in {"test", "level"} : levelR(l, "D", stdout)
    \/ \E l \in {"info", "warn", "test"} : logR(l)
    \/ writeR
    \/ \E m \in Messages, mask \in BOOLEAN : promptR(m, mask)
    \/ \E k \in {Enter, CtrlC, Backspace, "a"} : keyR(k)
    \/ readableR
    \/ \E x \in Prefixes, v \in InitialValues : progress(x, v)
    \/ \E v \in UpdateValues : update(v)
    \/ cancel
    \/ finish
    \/ \E v \in {50, 100} : updateOld(v)
    \/ cancelOld
    \/ finishOld
    \/ \E c \in ChoiceLists : choice(c, 2, TRUE)
    \/ \E k \in {"y", "n", "a", "2"} : choiceKey(k)

SpecOverlay == InitR /\ [][NextOverlay]_vars

----------------------------------------------------------------------------
(* Both variants, with streams that end and close *)

InitBoth == InitD \/ InitR

\* The calls of the default-stream variant around a file stream that is piped,
\* ended and closed.
NextCloseD ==
    \/ \E o \in Streams \cup {"path"}, l \in {Omitted, Given(<<"test">>)}, d \in BOOLEAN :
            pipeD(o, l, d)
    \/ \E o \in Streams \cup {undefined} : unpipeD(o)
    \/ \E a \in BOOLEAN : addLevelD("test", undefined, a)
    \/ \E l \in BuiltinLevels \cup CustomLevels : logD(l)
    \/ writeD
    \/ \E f \in FileStreams : streamEnd(f)
    \/ \E f \in FileStreams : streamClose(f)

NextBoth ==
    \/ variant = "D" /\ NextCloseD
    \/ variant = "R" /\ NextR

SpecBoth == InitBoth /\ [][NextBoth]_vars

----------------------------------------------------------------------------
(* Level registration in both variants *)

\* The level the callers register with addToDefault = true, and the one they
\* register with addToDefault = false
DefaultLevel == "test"

FallbackLevel == "test2"

\* Names that are members of the class and not levels, and 'default'
ReservedNamesD == {"pipe", "addLevel", "default"}

ReservedNamesR == {"level", "write", "enableMarkdown"}

\* The calls the level registration of the default-stream variant is explored with
NextLevelsD ==
    \/ \E o \in {stdout, stderr}, d \in BOOLEAN,
          l \in {Omitted, Given(<<"warn", "error">>), Given(<<FallbackLevel>>)} : pipeD(o, l, d)
    \/ \E o \in {stdout, undefined} : unpipeD(o)
    \/ \E d \in Decorators : addLevelD(DefaultLevel, d, TRUE)
    \/ \E d \in Decorators : addLevelD(FallbackLevel, d, FALSE)
    \/ \E l \in ReservedNamesD \cup {"info"}, d \in Decorators, a \in BOOLEAN : addLevelD(l, d, a)
    \/ \E l \in {"info", DefaultLevel, FallbackLevel} : logD(l)

\* The calls the level registration of the variant with level arrays is explored with
NextLevelsR ==
    \/ \E o \in {stdout, stderr}, l \in {<< >>, <<"warn", "error">>} : pipeR(o, Given(l))
    \/ unpipeR(stdout)
    \/ \E l \in ReservedNamesR \cup {"info", "test"}, d \in Decorators, o \in {stdout, stderr} :
            levelR(l, d, o)
    \/ \E l \in {"info", "test"} : logR(l)
    \/ writeR

NextLevels ==
    \/ variant = "D" /\ NextLevelsD
    \/ variant = "R" /\ NextLevelsR

SpecLevels == InitBoth /\ [][NextLevels]_vars

----------------------------------------------------------------------------
(* What the claims speak of *)

AllLevels == BuiltinLevels \cup CustomLevels

\* The log lines among the writes of the last call
LineWrites == SelectSeq(out, LAMBDA w : w.data.kind = "line")

\* How many log lines the last call wrote to stream s
LinesTo(s) == Cardinality({i \in DOMAIN out : out[i].data.kind = "line" /\ out[i].stream = s})

\* The streams the last call wrote a log line to
LineStreams == {out[i].stream : i \in {j \in DOMAIN out : out[j].data.kind = "line"}}

\* Sink s is registered as a catch-all / with an explicit list
IsCatchAll(s) == MapHas(streams, s) /\ MapGet(streams, s).null

IsExplicit(s) == MapHas(streams, s) /\ ~MapGet(streams, s).null

\* Sink s accepts `level`: it is a catch-all or has the level in its set
Accepts(s, level) ==
    MapHas(streams, s) /\ (MapGet(streams, s).null \/ level \in MapGet(streams, s).set)

Accepting(level) == {s \in Streams : Accepts(s, level)}

\* The last call was an un-paused call of a level function / of write()
LeveledCall == call.op = "log" /\ ~isPaused

PlainCall == call.op = "write" /\ ~isPaused

----------------------------------------------------------------------------
(* C1: default fallback.  For an un-paused call of level L that no registered *)
(* sink accepts: with a default sink set, exactly one log line is written and *)
(* it goes to the default sink; with no default sink, no log line is written. *)
C1_DefaultFallback ==
    (LeveledCall /\ Accepting(call.level) = {}) =>
        IF defaultStream # undefined
        THEN Len(LineWrites) = 1 /\ LineWrites[1].stream = defaultStream
        ELSE LineWrites = << >>

C1_Witness ==
    /\ LeveledCall
    /\ Accepting(call.level) = {}
    /\ defaultStream = stdout
    /\ streams # << >>
    /\ LineStreams = {stdout}

(* C2, as stated: a sink registered with an explicit level list never receives *)
(* a message whose level is outside that list, default sink or not.           *)
C2_Original ==
    LeveledCall =>
        \A s \in Streams : (IsExplicit(s) /\ LinesTo(s) > 0) => Accepts(s, call.level)

(* C2, amended: a sink with an explicit level list receives a leveled message *)
(* outside its accepted set only as the fallback: it is then the default sink *)
(* and no registered sink accepts the level.                                  *)
C2_ExplicitListOrFallback ==
    LeveledCall =>
        \A s \in Streams :
            (IsExplicit(s) /\ LinesTo(s) > 0 /\ ~Accepts(s, call.level)) =>
                (s = defaultStream /\ Accepting(call.level) = {})

C2_Witness ==
    /\ LeveledCall
    /\ call.level = "info"
    /\ IsExplicit(stdout) /\ IsExplicit(stderr)
    /\ Accepts(stdout, "info") /\ ~Accepts(stderr, "info")
    /\ defaultStream = stderr
    /\ LinesTo(stdout) = 1 /\ LinesTo(stderr) = 0

(* C3, as stated: a catch-all sink receives exactly one write for every       *)
(* un-paused call of every level and for every plain write() call.            *)
C3_Original ==
    (LeveledCall \/ PlainCall) => \A s \in Streams : IsCatchAll(s) => LinesTo(s) = 1

(* C3, amended: a catch-all sink receives exactly one log line for every      *)
(* un-paused call of a level function; a plain write() call reaches it only   *)
(* when it is the default sink, and then once.                                *)
C3_CatchAll ==
    /\ LeveledCall => \A s \in Streams : IsCatchAll(s) => LinesTo(s) = 1
    /\ PlainCall =>
        \A s \in Streams : IsCatchAll(s) => LinesTo(s) = (IF s = defaultStream THEN 1 ELSE 0)

C3_Witness ==
    /\ PlainCall
    /\ IsCatchAll(stderr)
    /\ defaultStream = stdout
    /\ LinesTo(stderr) = 0 /\ LinesTo(stdout) = 1

(* C4: when some registered sink accepts the message, the log line goes to    *)
(* the accepting sinks only (no fallback write), and no sink is written more  *)
(* than one log line by a single call.                                        *)
C4_NoExtraFallback ==
    /\ (LeveledCall \/ PlainCall) => \A s \in Streams : LinesTo(s) <= 1
    /\ (LeveledCall /\ Accepting(call.level) # {}) => LineStreams = Accepting(call.level)

C4_Witness ==
    /\ LeveledCall
    /\ defaultStream # undefined
    /\ IsCatchAll(defaultStream)
    /\ Cardinality(Accepting(call.level)) = 2
    /\ LinesTo(defaultStream) = 1

(* C5: pipe(s, levels, true) makes s the default sink, the only one (the      *)
(* default is a single reference, so the previous holder loses the status);   *)
(* pipe(s, levels, false) on the sink that is the default leaves no default.  *)
C5_SoleDefault ==
    [][call'.op = "pipe" =>
        /\ call'.flag => defaultStream' = call'.stream
        /\ (~call'.flag /\ defaultStream = call'.stream) => defaultStream' = undefined
        /\ (~call'.flag /\ defaultStream # call'.stream) => defaultStream' = defaultStream]_vars

C5_Witness ==
    /\ call.op = "pipe" /\ call.flag /\ call.stream = stderr
    /\ defaultStream = stderr
    /\ MapHas(streams, stdout)

(* C7, as stated: a sink piped with an empty level list is a catch-all like   *)
(* one piped with the list omitted: it receives every level.                  *)
C7_Original ==
    LeveledCall =>
        \A s \in Streams :
            (MapHas(streams, s) /\ MapGet(streams, s) = NewSet(<< >>)) => LinesTo(s) = 1

(* C7, amended: in the default-stream variant only a sink piped with the list *)
(* omitted is a catch-all (it accepts every level); a sink piped with an      *)
(* empty list accepts no level, and a leveled message reaches it only as the  *)
(* fallback, when it is the default sink and no registered sink accepts it.   *)
C7_EmptyListAcceptsNothing ==
    /\ (call.op = "pipe" /\ call.levels = Given(<< >>)) =>
            \A l \in AllLevels : ~Accepts(call.stream, l)
    /\ (call.op = "pipe" /\ call.levels = Omitted) =>
            \A l \in AllLevels : Accepts(call.stream, l)
    /\ LeveledCall =>
        \A s \in Streams :
            (MapHas(streams, s) /\ MapGet(streams, s) = NewSet(<< >>)) =>
                LinesTo(s) = (IF s = defaultStream /\ Accepting(call.level) = {} THEN 1 ELSE 0)

C7_Witness ==
    /\ LeveledCall
    /\ MapHas(streams, stderr) /\ MapGet(streams, stderr) = NewSet(<< >>)
    /\ IsCatchAll(stdout)
    /\ LinesTo(stderr) = 0 /\ LinesTo(stdout) = 1

(* C8: unpipe() without argument removes every sink and clears the default;   *)
(* from then until pipe() is called again no sink is registered, no default   *)
(* is set, and no call of a level function or of write() writes a log line.   *)
C8_UnpipeAll ==
    /\ []((call.op = "unpipe" /\ call.stream = undefined) =>
            (streams = << >> /\ defaultStream = undefined))
    /\ []((streams = << >> /\ defaultStream = undefined /\ call.op \in {"log", "write"}) =>
            LineWrites = << >>)
    /\ [][(streams = << >> /\ defaultStream = undefined /\ call'.op # "pipe") =>
            (streams' = << >> /\ defaultStream' = undefined)]_vars

C8_Witness ==
    /\ LeveledCall
    /\ streams = << >>
    /\ "test" \in loggingLevels
    /\ call.level = "test"
    /\ LineWrites = << >>

(* C9: unpipe(s) removes s only: the other sinks keep their accepted sets and *)
(* their order; when s was the default sink no default is left (no other sink *)
(* is promoted), otherwise the default stays; a level that no remaining sink  *)
(* accepts goes to the default sink when one is set and is dropped otherwise. *)
C9_UnpipeOne ==
    /\ [][(call'.op = "unpipe" /\ call'.stream # undefined) =>
            /\ streams' = SelectSeq(streams, LAMBDA e : e.stream # call'.stream)
            /\ defaultStream' = (IF defaultStream = call'.stream THEN undefined
                                 ELSE defaultStream)]_vars
    /\ []((LeveledCall /\ Accepting(call.level) = {}) =>
            LineStreams = (IF defaultStream = undefined THEN {} ELSE {defaultStream}))

C9_Witness ==
    /\ call.op = "unpipe" /\ call.stream = stdout
    /\ defaultStream = undefined
    /\ MapHas(streams, stderr)
    /\ MapGet(streams, stderr) = NewSet(<<"warn", "error">>)

----------------------------------------------------------------------------
(* Claims about both variants, under SpecBoth *)

\* The levels entry pipe() stores for its levels argument, in each variant
Stored(levels) ==
    IF variant = "R" THEN levels.list
    ELSE IF levels.omitted THEN Null ELSE NewSet(levels.list)

\* Sink s takes a leveled message: what #write tests, in each variant
Takes(s, level) ==
    /\ MapHas(streams, s)
    /\ IF variant = "R"
       THEN \/ streamState[s] = "open" /\ MapGet(streams, s) = << >>
            \/ \E i \in DOMAIN MapGet(streams, s) : MapGet(streams, s)[i] = level
       ELSE MapGet(streams, s).null \/ level \in MapGet(streams, s).set

(* C6: pipe() on a registered sink replaces that sink's levels by exactly the *)
(* new list (nothing of the earlier list is kept), leaves the levels of every *)
(* other sink and the order of the sinks unchanged; a later leveled message   *)
(* is matched against the new list only.                                      *)
C6_PipeReplaces ==
    /\ [][(call'.op = "pipe" /\ MapHas(streams, call'.stream)) =>
            /\ MapGet(streams', call'.stream) = Stored(call'.levels)
            /\ Len(streams') = Len(streams)
            /\ \A i \in DOMAIN streams :
                    /\ streams'[i].stream = streams[i].stream
                    /\ streams[i].stream # call'.stream => streams'[i] = streams[i]]_vars
    /\ [](LeveledCall =>
            \A s \in Streams :
                LinesTo(s) = (IF Takes(s, call.level)
                                 \/ (s = defaultStream /\ \A t \in Streams : ~Takes(t, call.level))
                              THEN 1 ELSE 0))

C6_Witness ==
    /\ variant = "R"
    /\ call.op = "pipe" /\ call.stream = stdout
    /\ call.levels = Given(<<"warn", "error">>)
    /\ MapGet(streams, stdout) = <<"warn", "error">>
    /\ MapHas(streams, stderr) /\ MapGet(streams, stderr) = << >>

(* C10, as stated: when a registered sink signals closure the logger is as    *)
(* after unpipe(sink): the sink is no longer registered and is not the        *)
(* default sink.                                                              *)
C10_Original ==
    (call.op = "close" /\ call.flag) =>
        (~MapHas(streams, call.stream) /\ defaultStream # call.stream)

(* C10, amended: in the variant whose pipe() listens for 'close' (it has no   *)
(* default sink) a registered sink that signals closure is removed as by      *)
(* unpipe(sink), the other sinks staying as they are, and it stays            *)
(* unregistered and unwritten until pipe() is called on it again; the         *)
(* default-stream variant does not listen: there closure changes neither the  *)
(* sinks nor the default.                                                     *)
C10_CloseDeregisters ==
    /\ [][call'.op = "close" =>
            IF variant = "R"
            THEN streams' = SelectSeq(streams, LAMBDA e : e.stream # call'.stream)
            ELSE streams' = streams /\ defaultStream' = defaultStream]_vars
    /\ [][(variant = "R" /\ \E s \in Streams :
                /\ streamState[s] = "closed" /\ ~MapHas(streams, s)
                /\ MapHas(streams', s))
            => call'.op = "pipe"]_vars
    /\ [](\A s \in Streams : LinesTo(s) > 0 => (MapHas(streams, s) \/ s = defaultStream))

C10_Witness ==
    /\ variant = "R"
    /\ call.op = "close" /\ call.flag
    /\ ~MapHas(streams, call.stream)
    /\ call.stream \notin closeListeners
    /\ MapHas(streams, stdout) /\ MapHas(streams, stderr)

----------------------------------------------------------------------------
(* Claims about the variant with level arrays, under SpecR *)

\* The last call was an un-paused call of a level function or of write()
LogCall == call.op \in {"log", "write"} /\ ~isPaused

(* C11, as stated: once a registered stream has been ended, no log call       *)
(* writes a log line to it, whether its level list is explicit or empty and   *)
(* whether or not its 'close' event has been delivered.                       *)
C11_Original ==
    LogCall => \A s \in Streams : streamState[s] # "open" => LinesTo(s) = 0

----------------------------------------------------------------------------
(* Claims about level registration, under SpecLevels *)

\* The last call registered a level / was refused
Registered == call.op \in {"addLevel", "level"} /\ call.result # "Error"

Refused == call.op \in {"addLevel", "level"} /\ call.result = "Error"

\* Sink s accepts `level` in the sink table m of the default-stream variant
AcceptsIn(m, s, level) ==
    MapHas(m, s) /\ (MapGet(m, s).null \/ level \in MapGet(m, s).set)

(* C12, as stated: a level registered with addToDefault = false is routed, at *)
(* each log call, to whichever sink is the default at the time of that call.  *)
C12_Original ==
    (variant = "D" /\ LeveledCall /\ call.level = FallbackLevel /\ defaultStream # undefined) =>
        LineStreams = {defaultStream}

(* C12, amended: addLevel(name, decorator, true) adds the level to the        *)
(* accepted set of the sink that is the default at registration time, and the *)
(* sink keeps accepting it when another sink is piped as the default; the     *)
(* level is written to every sink that accepts it.  addLevel(name, decorator, *)
(* false) changes no accepted set: the level goes to the sinks that accept it *)
(* (a catch-all, a sink whose list names it) and only when no sink accepts it *)
(* to whichever sink is the default at the time of the call.                  *)
C12_AddToDefault ==
    /\ [][(variant = "D" /\ call'.op = "addLevel" /\ call'.result # "Error") =>
            IF call'.flag
            THEN /\ defaultStream # undefined => AcceptsIn(streams', defaultStream, call'.level)
                 /\ \A s \in Streams \ {defaultStream} :
                        MapHas(streams, s) => MapGet(streams', s) = MapGet(streams, s)
            ELSE streams' = streams]_vars
    /\ [][(variant = "D" /\ call'.op = "pipe") =>
            \A s \in Streams \ {call'.stream} :
                Accepts(s, DefaultLevel) => AcceptsIn(streams', s, DefaultLevel)]_vars
    /\ []((variant = "D" /\ LeveledCall) =>
            LineStreams = (IF Accepting(call.level) # {} THEN Accepting(call.level)
                           ELSE IF defaultStream = undefined THEN {}
                           ELSE {defaultStream}))

C12_Witness ==
    /\ variant = "D"
    /\ LeveledCall /\ call.level = DefaultLevel
    /\ defaultStream = stderr
    /\ Accepts(stdout, DefaultLevel) /\ ~Accepts(stderr, DefaultLevel)
    /\ LineStreams = {stdout}

\* The members of an instance: the names of the class and the installed functions
Members == (IF variant = "R" THEN ClassMembersR ELSE ClassMembersD) \cup DOMAIN levelFns

(* C13: registering a level whose name is a member of the logger and not a    *)
(* registered level fails with an error, and the failed call leaves the level *)
(* registry, every sink's levels and the installed functions unchanged.       *)
C13_ReservedName ==
    /\ [][(call'.op \in {"addLevel", "level"} /\ call'.level \in Members \ loggingLevels) =>
            call'.result = "Error"]_vars
    /\ [][(call'.op \in {"addLevel", "level"} /\ call'.result = "Error") =>
            (loggingLevels' = loggingLevels /\ streams' = streams /\ levelFns' = levelFns)]_vars

C13_Witness ==
    /\ variant = "R"
    /\ Refused /\ call.level = "level"
    /\ "test" \in loggingLevels
    /\ "test" \in Range(MapGet(streams, stdout))

(* C14: registering a level whose name is already a known level succeeds, the *)
(* function of that level is replaced, and a later call of the level applies  *)
(* the decorator of the most recent registration only: no built-in prefix, no *)
(* earlier decorator.                                                         *)
C14_Overwrite ==
    /\ [][(call'.op \in {"addLevel", "level"} /\ call'.level \in loggingLevels) =>
            /\ call'.result # "Error"
            /\ levelFns'[call'.level] = call'.decorator
            /\ \A n \in DOMAIN levelFns \ {call'.level} : levelFns'[n] = levelFns[n]]_vars
    /\ [][call'.op \notin {"addLevel", "level"} => levelFns' = levelFns]_vars
    /\ []((LeveledCall /\ call.level \in DOMAIN levelFns) =>
            \A i \in DOMAIN LineWrites :
                /\ LineWrites[i].data.prefix = ""
                /\ LineWrites[i].data.decorator = levelFns[call.level])

C14_Witness ==
    /\ LeveledCall /\ call.level = "info"
    /\ "info" \in DOMAIN levelFns /\ levelFns["info"] = "D"
    /\ LineWrites # << >>
    /\ LineWrites[1].data.decorator = "D" /\ LineWrites[1].data.prefix = ""

----------------------------------------------------------------------------
(* Claims about the lines, under SpecFormat *)

(* C15: a call of a registered custom level L with decorator D writes the     *)
(* same line as write(D(msg)) in the same logger state: same Markdown         *)
(* handling, indentation and terminator, no prefix; with no decorator the     *)
(* line is the plain message.  write(D(msg)) itself writes that line.         *)
C15_SameLineAsWrite ==
    /\ (LeveledCall /\ call.level \in DOMAIN levelFns) =>
            \A i \in DOMAIN LineWrites :
                LineWrites[i].data = write_line(levelFns[call.level], enableMarkdown,
                                                indent_prefix(indentString, indentationLevel))
    /\ PlainCall =>
            \A i \in DOMAIN LineWrites :
                LineWrites[i].data = write_line(call.decorator, enableMarkdown,
                                                indent_prefix(indentString, indentationLevel))

C15_Witness ==
    /\ LeveledCall /\ call.level = "test"
    /\ levelFns["test"] = "D"
    /\ enableMarkdown /\ indentationLevel = 2
    /\ Len(LineWrites) = 1
    /\ LineWrites[1].data.decorator = "D" /\ LineWrites[1].data.markdown

(* C18: the indentation level is an integer >= 0 in every reachable state:    *)
(* indent(n) sets it to max(level + n, 0), outdent(n) to max(level - n, 0),   *)
(* clearIndentation() to 0, no other call changes it, and indent and outdent  *)
(* return the logger they were called on.                                     *)
C18_IndentationLevel ==
    /\ [](indentationLevel \in Nat)
    /\ [][call'.op = "indent" =>
            /\ indentationLevel' = (IF indentationLevel + call'.amount >= 0
                                    THEN indentationLevel + call'.amount ELSE 0)
            /\ call'.result = "this"]_vars
    /\ [][call'.op = "outdent" =>
            /\ indentationLevel' = (IF indentationLevel - call'.amount >= 0
                                    THEN indentationLevel - call'.amount ELSE 0)
            /\ call'.result = "this"]_vars
    /\ [][call'.op = "clearIndentation" => indentationLevel' = 0]_vars
    /\ [][call'.op \notin {"indent", "outdent", "clearIndentation"} =>
            indentationLevel' = indentationLevel]_vars

C18_Witness ==
    /\ call.op = "outdent" /\ call.amount = 2 /\ call.flag
    /\ indentationLevel = 0
    /\ call.result = "this"

----------------------------------------------------------------------------
(* Claims about pausing and the overlays, under SpecOverlay *)

Dynamic == {"progress", "update", "finish", "cancel", "prompt", "key", "readable", "choice",
            "choiceKey"}

(* C17: pause() does not affect the dynamic functions: paused or not, they    *)
(* leave the paused flag alone, progress() and a changing update() write the  *)
(* bar and track its text, finish(), cancel() and update(1) write the final   *)
(* bar line and deactivate the overlay, prompt() and choice() write their     *)
(* text and track it.                                                         *)
C17_DynamicIgnoresPause ==
    /\ [][call'.op \in Dynamic => isPaused' = isPaused]_vars
    /\ []((call.op = "progress" /\ call.result # "Error") =>
            /\ userPrompt = BarText(bar.prefix, call.amount, "yellow")
            /\ out = <<Write(stdout, Text(userPrompt))>>)
    /\ []((call.op = "update" /\ call.flag /\ call.amount < 100) =>
            /\ userPrompt = BarText(bar.prefix, call.amount, "yellow")
            /\ out \in {<< >>, <<Write(stdout, ClearBar), Write(stdout, Text(userPrompt))>>})
    /\ []((call.op \in {"update", "finish", "cancel"} /\ call.flag
                /\ (call.op = "update" => call.amount = 100)) =>
            /\ userPrompt = NoPrompt
            /\ bar.finished
            /\ out # << >>
            /\ out[Len(out)] =
                    Write(stdout, TextLine(BarText(bar.prefix, bar.currentValue,
                                                   IF call.op = "cancel" THEN "red" ELSE "green"))))
    /\ []((call.op \in {"prompt", "choice"} /\ call.result # "Error") =>
            /\ userPrompt.defined /\ userPrompt.kind = call.op
            /\ out = <<Write(stdout, Text(userPrompt))>>)

C17_Witness ==
    /\ isPaused
    /\ call.op = "update" /\ call.flag /\ call.amount = 50
    /\ userPrompt = BarText("Loading ", 50, "yellow")
    /\ Len(out) = 2

(* C20: at most one interactive overlay (progress bar, prompt, choice menu)   *)
(* is active at any time, and the active one is tracked; progress(), prompt() *)
(* or choice() called while an overlay is active fails with an error, writes  *)
(* nothing and leaves the tracked text, the bar and the key handler as they   *)
(* are.                                                                       *)
C20_OneOverlay ==
    /\ [](~(~bar.finished /\ stdin.listener # "none"))
    /\ []((~bar.finished \/ stdin.listener # "none") => userPrompt.defined)
    /\ [][(call'.op \in {"progress", "prompt", "choice"} /\ userPrompt.defined) =>
            /\ call'.result = "Error"
            /\ out' = << >>
            /\ userPrompt' = userPrompt /\ stdin' = stdin /\ bar' = bar]_vars

C20_Witness ==
    /\ call.op = "progress" /\ call.result = "Error"
    /\ stdin.listener = "choice"
    /\ userPrompt.defined /\ userPrompt.kind = "choice"
    /\ out = << >>

\* The last call was a misuse: it failed with an error
Misuse == call.op \in {"level", "progress", "prompt", "choice"} /\ call.result = "Error"

(* C21, as stated: every misuse error (reserved level name, duplicate choice  *)
(* key, empty choice list, overlay started while one is active) is raised     *)
(* synchronously: the offending call throws, it does not return a promise     *)
(* that fails.                                                                *)
C21_Original == Misuse => call.raised = "throw"

(* C21, amended: a misuse is detected during the offending call, before       *)
(* anything is written; level() and progress() throw the error to the caller, *)
(* prompt() and choice(), which are async, return a promise rejected with it. *)
C21_MisuseAtTheCall ==
    Misuse =>
        /\ out = << >>
        /\ call.raised = (IF call.op \in {"level", "progress"} THEN "throw" ELSE "reject")

C21_Witness ==
    /\ call.op = "choice" /\ call.result = "Error" /\ call.raised = "reject"
    /\ call.choices = << >>
    /\ ~userPrompt.defined /\ stdin.listener = "none"

\* An overlay is active: an unfinished progress bar, a prompt or a choice menu
\* that waits for input
OverlayActive == ~bar.finished \/ stdin.listener # "none"

(* C22: an un-paused log call made while an overlay is active writes, in this *)
(* order: the clear of the overlay's line (clearLine, cursorTo) on the        *)
(* terminal, the log line to each sink that takes it, the overlay's current   *)
(* text on the terminal; the overlay's text is the last thing written.  With  *)
(* no overlay text tracked only log lines are written.                        *)
C22_YieldRestore ==
    /\ (LogCall /\ OverlayActive) =>
            /\ userPrompt.defined
            /\ Len(out) >= 3
            /\ out[1] = Write(stdout, ClearLine)
            /\ out[2] = Write(stdout, CursorTo)
            /\ \A i \in 3..(Len(out) - 1) : out[i].data.kind = "line"
            /\ out[Len(out)] = Write(stdout, Text(userPrompt))
    /\ (LogCall /\ ~userPrompt.defined) => \A i \in DOMAIN out : out[i].data.kind = "line"

C22_Witness ==
    /\ LogCall /\ call.level = "info"
    /\ OverlayActive /\ userPrompt.kind = "bar" /\ userPrompt.value = 50
    /\ Len(out) = 4
    /\ out[3].stream = stdout /\ out[3].data.kind = "line"
    /\ out[4] = Write(stdout, Text(userPrompt))

(* C23: once a progress handle is finished (by finish(), cancel() or          *)
(* update(1)), a further update(), finish() or cancel() on it is a no-op: it  *)
(* writes nothing and leaves the tracked overlay text, the key handler, both  *)
(* bars and the rest of the logger as they are, also when another overlay has *)
(* been started since.                                                        *)
C23_FinishedHandleNoOp ==
    /\ [][(call'.op \in {"update", "finish", "cancel"} /\ ~call'.flag) =>
            /\ out' = << >>
            /\ UNCHANGED <<userPrompt, stdin, bar, oldBar, isPaused, streams, loggingLevels,
                           levelFns>>]_vars
    /\ [][(call'.op \in {"update", "finish", "cancel"} /\ call'.flag) =>
            (IF call'.level = "previous" THEN ~oldBar.finished ELSE ~bar.finished)]_vars
    /\ [](oldBar.finished)
    /\ []((call.op \in {"finish", "cancel"} /\ call.flag) => bar.finished)

C23_Witness ==
    /\ call.op = "finish" /\ call.level = "previous" /\ ~call.flag
    /\ oldBar # NoBar /\ oldBar.currentValue = 50
    /\ ~bar.finished
    /\ userPrompt = BarText("Loading ", 0, "yellow")
    /\ out = << >>

\* A value in percent brought into 0..100
Clamped(v) == IF v < 0 THEN 0 ELSE IF v > 100 THEN 100 ELSE v

\* The last call was update() on the unfinished bar of the last progress()
LiveUpdate == call.op = "update" /\ call.flag /\ call.level # "previous"

MenuOpened == call.op = "choice" /\ call.result # "Error"

\* The keys the menu of the last choice() has, in list order
MenuKeys == [i \in DOMAIN stdin.choices |-> stdin.choices[i].key]

\* The first alphabetic character of a label, in lower case
Alphabetic(c) == Lower(c) \in Letters

FirstAlphabetic(label) ==
    IF \A p \in DOMAIN label : ~Alphabetic(label[p]) THEN undefined
    ELSE Lower(label[CHOOSE p \in DOMAIN label :
                        Alphabetic(label[p]) /\ \A q \in 1..(p - 1) : ~Alphabetic(label[q])])

(* C26: choice key assignment.  Explicit keys are kept and are reserved       *)
(* first; each choice without one, in list order, gets the first alphabetic   *)
(* character of its label in lower case if that key is not in use (by an      *)
(* explicit key or by an earlier choice), otherwise the first of its 1-based  *)
(* position number, position + 1, ... that is not in use, as a string.        *)
(* ["Blue", "Red"] gets b and r; ["Continue", "Cancel"] gets c and 2.  The    *)
(* menu shows the assigned keys.                                              *)
C26_KeyAssignment ==
    MenuOpened =>
        LET given == call.choices
            explicit == {i \in DOMAIN given : given[i].key # undefined}
            used(i) == {given[j].key : j \in explicit}
                       \cup {MenuKeys[j] : j \in (1..(i - 1)) \ explicit}
        IN /\ Len(MenuKeys) = Len(given)
           /\ \A i \in explicit : MenuKeys[i] = given[i].key
           /\ \A i \in DOMAIN given \ explicit :
                LET letter == FirstAlphabetic(given[i].label)
                IN IF letter # undefined /\ letter \notin used(i)
                   THEN MenuKeys[i] = letter
                   ELSE \E n \in i..9 :
                            /\ MenuKeys[i] = NumberString(n)
                            /\ NumberString(n) \notin used(i)
                            /\ \A k \in i..(n - 1) : NumberString(k) \in used(i)
           /\ given = BlueRed => MenuKeys = <<"b", "r">>
           /\ given = ContinueCancel => MenuKeys = <<"c", "2">>
           /\ \A i \in DOMAIN given : userPrompt.entries[i].key = MenuKeys[i]

C26_Witness ==
    /\ MenuOpened
    /\ Len(call.choices) = 3 /\ call.choices[3].key = "2"
    /\ MenuKeys = <<"c", "3", "2">>

\* The last call was a choice() given two choices with the same explicit key
DuplicateGiven(c) ==
    /\ c.op = "choice"
    /\ \E i, j \in DOMAIN c.choices :
            i # j /\ c.choices[i].key # undefined /\ c.choices[i].key = c.choices[j].key

(* C27: choice() given two choices with the same explicit key fails with an   *)
(* error, and the failure writes nothing and changes neither the overlay nor  *)
(* the key handler: when no overlay was active before the call none is after  *)
(* it, and no handler is attached.                                           *)
C27_DuplicateKey ==
    [][DuplicateGiven(call') =>
        /\ call'.result = "Error"
        /\ out' = << >>
        /\ UNCHANGED <<userPrompt, stdin, bar>>
        /\ ~OverlayActive => (~OverlayActive' /\ stdin'.listener = "none")]_vars

C27_Witness ==
    /\ DuplicateGiven(call)
    /\ call.result = "Error"
    /\ out = << >>
    /\ ~OverlayActive

(* C28: while a choice menu is pending, a key press equal to a choice's key   *)
(* resolves the call with that choice's value if it has one and with its      *)
(* label otherwise, writes the line terminator to the terminal, detaches the  *)
(* key handler and deactivates the overlay; any other key press but the       *)
(* interrupt key leaves the menu pending and the logger unchanged.            *)
C28_ChoiceKeyPress ==
    [][call'.op = "choiceKey" =>
        /\ stdin.listener = "choice" /\ userPrompt.defined
        /\ IF \E i \in DOMAIN stdin.choices : stdin.choices[i].key = call'.key
           THEN /\ \E i \in DOMAIN stdin.choices :
                    /\ stdin.choices[i].key = call'.key
                    /\ call'.result = IF stdin.choices[i].value.defined
                                      THEN stdin.choices[i].value.is
                                      ELSE stdin.choices[i].label
                /\ out' = <<Write(stdout, Terminator)>>
                /\ stdin'.listener = "none"
                /\ ~userPrompt'.defined
                /\ ~OverlayActive'
           ELSE /\ out' = << >>
                /\ UNCHANGED <<userPrompt, stdin>>
        /\ UNCHANGED <<streams, defaultStream, loggingLevels, levelFns, isPaused, env>>]_vars

C28_Witness ==
    /\ call.op = "choiceKey"
    /\ call.key = "n"
    /\ call.result = <<"n", "o">>
    /\ out = <<Write(stdout, Terminator)>>
    /\ ~OverlayActive

----------------------------------------------------------------------------
(* Plain writes of the default-stream variant *)

\* Level lists that name every level: the built-in ones and a custom one, and
\* the same with the empty string that is NO_LEVEL
EveryLevel == <<"info", "warn", "error", "success", "test">>
EveryLevelAndNone == Append(EveryLevel, NO_LEVEL)

NextPlain ==
    \/ pause
    \/ resume
    \/ \E o \in {stdout, stderr}, l \in {Omitted, Given(EveryLevel), Given(EveryLevelAndNone)},
          d \in BOOLEAN : pipeD(o, l, d)
    \/ \E o \in {stdout, stderr, undefined} : unpipeD(o)
    \/ \E a \in BOOLEAN : addLevelD("test", undefined, a)
    \/ \E l \in {"info", "test"} : logD(l)
    \/ writeD

SpecPlain == InitD /\ [][NextPlain]_vars

\* The sink lists every level name
ListsEveryLevel(s) == IsExplicit(s) /\ Range(EveryLevel) \subseteq MapGet(streams, s).set

(* C29: in the variant whose write() carries NO_LEVEL, an un-paused           *)
(* write(msg) puts its one line on the default sink and on no other sink,     *)
(* whatever is registered (a catch-all sink, a sink listing every level);     *)
(* with no default sink the line is dropped.                                  *)
C29_PlainToDefaultOnly ==
    (variant = "D" /\ PlainCall) =>
        /\ LineStreams = (IF defaultStream = undefined THEN {} ELSE {defaultStream})
        /\ Len(LineWrites) = (IF defaultStream = undefined THEN 0 ELSE 1)
        /\ \A s \in Streams \ {defaultStream} :
                (IsCatchAll(s) \/ ListsEveryLevel(s)) => LinesTo(s) = 0

C29_Witness ==
    /\ variant = "D" /\ PlainCall
    /\ defaultStream = stdout /\ IsCatchAll(stdout)
    /\ ListsEveryLevel(stderr) /\ NO_LEVEL \in MapGet(streams, stderr).set
    /\ LinesTo(stderr) = 0 /\ LinesTo(stdout) = 1

(* C30: in the variant whose write() is part of the info level, an un-paused  *)
(* write(msg) reaches exactly the sinks an info(msg) reaches in the same      *)
(* configuration: both put one line on every sink that takes "info", in the   *)
(* same order, and on no other, also after level("info", ...) has             *)
(* re-registered the level.                                                   *)
C30_WriteAsInfo ==
    (variant = "R" /\ ~isPaused
        /\ (call.op = "write" \/ (call.op = "log" /\ call.level = "info"))) =>
        /\ LineStreams = {s \in Streams : Takes(s, "info")}
        /\ [i \in DOMAIN LineWrites |-> LineWrites[i].stream]
            = [i \in DOMAIN writeR_matches(streams, streamState, "info") |->
                    writeR_matches(streams, streamState, "info")[i].stream]

C30_Witness ==
    /\ variant = "R" /\ ~isPaused /\ call.op = "write"
    /\ "info" \in DOMAIN levelFns
    /\ MapHas(streams, stderr) /\ "info" \in Range(MapGet(streams, stderr))
    /\ ~MapHas(streams, stdout)
    /\ LineStreams = {stderr}

----------------------------------------------------------------------------
(* Several instances: the module's `log` and a `new Log()` of the caller *)

\* export const log = globalLogger; const logger = new Log()
Instances == {"log", "logger"}

\* The fields of a new Log(), after its constructor has piped the two streams
NewLog ==
    [streams |-> pipeR_streams(pipeR_streams(<< >>, stdout, <<"info", "success">>),
                               stderr, <<"warn", "error">>),
     loggingLevels |-> BuiltinLevels,
     levelFns |-> [n \in {} |-> undefined],
     isPaused |-> FALSE,
     indentationLevel |-> 0]

\* Fields that belong to the class, so that every instance has the same ones
this_fields_static(self) == Instances

\* The instances whose fields `this.#field = ...` and `this[level] = ...` assign
this_fields(self) == {self}

\* An assignment to fields of `this`
SetFields(self, new) ==
    instances' = [i \in Instances |-> IF i \in this_fields(self) THEN new ELSE instances[i]]

\* What a call on an instance leaves alone
InstanceFrame ==
    UNCHANGED <<streams, defaultStream, loggingLevels, levelFns, isPaused, userPrompt,
                stdin, streamState, closeListeners, indentationLevel, enableMarkdown,
                indentString, bar, oldBar, variant, colors>>

\* self.pipe(stream, levels)
ofPipe(self, stream, levels) ==
    /\ SetFields(self, [instances[self] EXCEPT !.streams = pipeR_streams(@, stream, levels)])
    /\ out' = << >>
    /\ call' = [Call("pipe", stream, "", FALSE, undefined)
                    EXCEPT !.levels = Given(levels), !.self = self]
    /\ InstanceFrame

\* self.unpipe(stream)
ofUnpipe(self, stream) ==
    /\ SetFields(self, [instances[self] EXCEPT !.streams = MapDelete(@, stream)])
    /\ out' = << >>
    /\ call' = [Call("unpipe", stream, "", FALSE, undefined) EXCEPT !.self = self]
    /\ InstanceFrame

\* self.level(level, decorator, stream)
ofLevel(self, level, decorator, stream) ==
    LET this == instances[self]
    IN /\ IF level_allowed(this.levelFns, this.loggingLevels, level)
          THEN /\ SetFields(self, [this EXCEPT
                                      !.levelFns = InstallFn(@, level, decorator),
                                      !.streams = level_streams(@, stream, level),
                                      !.loggingLevels = @ \cup {level}])
               /\ call' = [Call("level", stream, level, FALSE, undefined)
                               EXCEPT !.decorator = decorator, !.self = self]
          ELSE /\ UNCHANGED instances
               /\ call' = [Call("level", stream, level, FALSE, "Error")
                               EXCEPT !.decorator = decorator, !.raised = "throw",
                                      !.self = self]
       /\ out' = << >>
       /\ InstanceFrame

\* self.pause() and self.resume()
ofPause(self) ==
    /\ SetFields(self, [instances[self] EXCEPT !.isPaused = TRUE])
    /\ out' = << >>
    /\ call' = [Call("pause", undefined, "", FALSE, undefined) EXCEPT !.self = self]
    /\ InstanceFrame

ofResume(self) ==
    /\ SetFields(self, [instances[self] EXCEPT !.isPaused = FALSE])
    /\ out' = << >>
    /\ call' = [Call("resume", undefined, "", FALSE, undefined) EXCEPT !.self = self]
    /\ InstanceFrame

\* self.indent(amount) and self.outdent(amount)
ofIndent(self, amount) ==
    /\ indent_level(instances[self].indentationLevel, amount) <= MaxIndent
    /\ SetFields(self, [instances[self] EXCEPT
                            !.indentationLevel = indent_level(@, amount)])
    /\ out' = << >>
    /\ call' = [Call("indent", undefined, "", FALSE, "this")
                    EXCEPT !.amount = amount, !.self = self]
    /\ InstanceFrame

ofOutdent(self, amount) ==
    /\ SetFields(self, [instances[self] EXCEPT
                            !.indentationLevel = outdent_level(@, amount)])
    /\ out' = << >>
    /\ call' = [Call("outdent", undefined, "", FALSE, "this")
                    EXCEPT !.amount = amount, !.self = self]
    /\ InstanceFrame

\* self.info(), self.warn() or an installed level function of self
ofLog(self, level) ==
    LET this == instances[self]
    IN /\ level \in BuiltinLevels \cup DOMAIN this.levelFns
       /\ out' = writeR_out(this.streams, streamState, this.isPaused, NoPrompt, level,
                            LevelLineR(this.levelFns, level, enableMarkdown,
                                       indent_prefix(indentString, this.indentationLevel)))
       /\ call' = [Call("log", undefined, level, FALSE, undefined) EXCEPT !.self = self]
       /\ UNCHANGED instances
       /\ InstanceFrame

NextInstances ==
    \E self \in Instances :
        \/ \E l \in {<< >>, <<"warn">>} : ofPipe(self, stderr, l)
        \/ ofUnpipe(self, stderr)
        \/ \E l \in {"test", "write"} : ofLevel(self, l, "D", stderr)
        \/ ofPause(self)
        \/ ofResume(self)
        \/ ofIndent(self, 1)
        \/ ofOutdent(self, 1)
        \/ \E l \in {"warn", "test"} : ofLog(self, l)

InitInstances ==
    /\ streams = NewLog.streams
    /\ defaultStream = undefined
    /\ loggingLevels = BuiltinLevels
    /\ levelFns = [n \in {} |-> undefined]
    /\ isPaused = FALSE
    /\ userPrompt = NoPrompt
    /\ stdin = NoListener
    /\ streamState = [s \in Streams |-> "open"]
    /\ closeListeners = {stdout, stderr}
    /\ indentationLevel = 0
    /\ enableMarkdown = TRUE
    /\ indentString = "  "
    /\ bar = NoBar
    /\ oldBar = NoBar
    /\ variant = "R"
    /\ instances = [i \in Instances |-> NewLog]
    /\ colors = TRUE
    /\ out = << >>
    /\ call = Call("new", undefined, "", FALSE, undefined)

SpecInstances == InitInstances /\ [][NextInstances]_vars

\* The calls that configure an instance
ConfigOps == {"pipe", "unpipe", "level", "pause", "resume", "indent", "outdent"}

\* The streams a message of the level reaches on an instance, in order
RoutingOf(this, state, level) ==
    IF this.isPaused THEN << >>
    ELSE LET matched == writeR_matches(this.streams, state, level)
         IN [k \in DOMAIN matched |-> matched[k].stream]

Order(m) == [i \in DOMAIN m |-> m[i].stream]

\* The sinks the log lines of the last call went to, in the order of the writes
WrittenOrder == [i \in DOMAIN LineWrites |-> LineWrites[i].stream]

\* s comes before t in the sequence
Before(seq, s, t) == \E i, j \in DOMAIN seq : i < j /\ seq[i] = s /\ seq[j] = t

(* C32: a message accepted by several sinks is written to them in the order   *)
(* in which they were registered.  pipe() on a sink that is registered keeps  *)
(* its position, pipe() on a sink that is not registered (also one that was   *)
(* unpiped before) puts it last, and unpipe() of one sink and the             *)
(* registration of a level leave the order of the others alone.               *)
C32_RegistrationOrder ==
    /\ []((LeveledCall /\ \E t \in Streams : Takes(t, call.level)) =>
            /\ \A i, j \in DOMAIN WrittenOrder :
                    i < j => Before(Order(streams), WrittenOrder[i], WrittenOrder[j])
            /\ WrittenOrder = SelectSeq(Order(streams), LAMBDA t : Takes(t, call.level)))
    /\ [][call'.op = "pipe" =>
            IF MapHas(streams, call'.stream)
            THEN Order(streams') = Order(streams)
            ELSE Order(streams') = Append(Order(streams), call'.stream)]_vars
    /\ [][(call'.op = "unpipe" /\ call'.stream # undefined) =>
            Order(streams') = SelectSeq(Order(streams), LAMBDA t : t # call'.stream)]_vars
    /\ [][call'.op \in {"level", "addLevel", "log", "write"} =>
            Order(streams') = Order(streams)]_vars

C32_Witness ==
    /\ LeveledCall /\ call.level = "warn"
    /\ Order(streams) = <<stderr, stdout>>
    /\ WrittenOrder = <<stderr, stdout>>

\* A log call made while no overlay is pending writes log lines only
PlainLines == \A i \in DOMAIN out : out[i].data.kind = "line"

\* The last call started an overlay with arguments that are in order
ValidStart ==
    \/ call.op \in {"progress", "prompt"}
    \/ call.op = "choice" /\ call.choices # << >> /\ ~DuplicateGiven(call)

(* C33, as stated: once an overlay has completed (a progress bar finished or *)
(* cancelled, a masked or unmasked prompt resolved, a choice resolved) it is  *)
(* inactive: no overlay text is tracked, a log call is not followed by a      *)
(* re-print, and a new progress(), prompt() or choice() starts without error. *)
C33_Original ==
    /\ [](~OverlayActive => ~userPrompt.defined)
    /\ []((~OverlayActive /\ LogCall) => PlainLines)
    /\ [][(~OverlayActive /\ ValidStart') => call'.result # "Error"]_vars

----------------------------------------------------------------------------
(* Prompts: every kind of key, log calls while the prompt waits *)

NextPrompt ==
    \/ pause
    \/ resume
    \/ \E m \in Messages, mask \in BOOLEAN : promptR(m, mask)
    \/ \E k \in Keys : keyR(k)
    \/ readableR
    \/ \E l \in {"info", "warn"} : logR(l)
    \/ writeR

SpecPrompt == InitR /\ [][NextPrompt]_vars

\* n blanks
Blanks(n) == [i \in 1..n |-> " "]

\* The text is what trim() leaves of the input
TrimmedOf(text, input) ==
    /\ text # << >> => (text[1] # " " /\ text[Len(text)] # " ")
    /\ \E a, b \in 0..Len(input) : input = Blanks(a) \o text \o Blanks(b)

\* The key press ended the prompt: terminator written, handler off, overlay off
PromptEnded ==
    /\ out' = <<Write(stdout, Terminator)>>
    /\ stdin'.listener = "none"
    /\ ~userPrompt'.defined
    /\ ~OverlayActive'

C35_DefaultIsRegistered ==
    (variant = "D" /\ defaultStream # undefined) => MapHas(streams, defaultStream)

C35_Witness ==
    /\ variant = "D"
    /\ call.op = "unpipe" /\ call.stream = stdout
    /\ defaultStream = stderr
    /\ MapKeys(streams) = {stderr}

\* The sink is registered and takes every level: no list (default-stream
\* variant), an empty list (the other variant)
TakesAll(s) ==
    /\ MapHas(streams, s)
    /\ IF variant = "R" THEN MapGet(streams, s) = << >> ELSE MapGet(streams, s).null

(* C36, as stated: a successful level(name, decorator, target) or             *)
(* addLevel(name, decorator, true) never shrinks what a sink accepts: every   *)
(* sink takes afterwards every level it took before, and a catch-all sink     *)
(* that is the registration target is still a catch-all.                      *)
C36_Original ==
    [][((call'.op = "level" \/ (call'.op = "addLevel" /\ call'.flag))
            /\ call'.result # "Error") =>
        \A s \in Streams :
            /\ \A l \in BuiltinLevels \cup LevelNames :
                    Takes(s, l) => Takes(s, l)'
            /\ TakesAll(s) => TakesAll(s)']_vars

----------------------------------------------------------------------------
(* Progress bars: colours supported or not, any initial value *)

\* The values progress() is called with, in percent
AnyInitialValues == {-50, 0, 50, 100, 150}

InitBar ==
    /\ streams = pipeR_streams(pipeR_streams(<< >>, stdout, <<"info", "success">>),
                               stderr, <<"warn", "error">>)
    /\ defaultStream = undefined
    /\ loggingLevels = BuiltinLevels
    /\ levelFns = [n \in {} |-> undefined]
    /\ isPaused = FALSE
    /\ userPrompt = NoPrompt
    /\ stdin = NoListener
    /\ streamState = [s \in Streams |-> "open"]
    /\ closeListeners = {stdout, stderr}
    /\ indentationLevel = 0
    /\ enableMarkdown = TRUE
    /\ indentString = "  "
    /\ bar = NoBar
    /\ oldBar = NoBar
    /\ variant = "R"
    /\ instances = << >>
    /\ colors \in BOOLEAN
    /\ out = << >>
    /\ call = Call("new", undefined, "", FALSE, undefined)

NextBar ==
    \/ pause
    \/ resume
    \/ \E p \in Prefixes, i \in AnyInitialValues : progress(p, i)
    \/ \E v \in UpdateValues : update(v)
    \/ cancel
    \/ finish
    \/ \E l \in {"info", "warn"} : logR(l)
    \/ writeR

SpecBar == InitBar /\ [][NextBar]_vars

\* The write puts the text of a progress bar on the terminal's current line
IsBarWrite(w) == w.data.kind \in {"text", "textLine"} /\ w.data.prompt.kind = "bar"

(* C37, as stated: the terminal's last line never holds two copies of overlay *)
(* text.  With colours supported or not, every write of bar text by           *)
(* update(), finish() or cancel() onto the line that displays the bar comes   *)
(* right after a clear of that line, also when the final text is the text     *)
(* displayed.                                                                 *)
C37_Original ==
    [][(call'.op \in {"update", "finish", "cancel"}
            /\ userPrompt.defined /\ userPrompt.kind = "bar") =>
        \A i \in DOMAIN out' :
            IsBarWrite(out'[i]) => (i > 1 /\ out'[i - 1] = Write(stdout, ClearBar))]_vars

(* C38, as stated: for every value passed to progress(prefix, initialPct) or  *)
(* to update(value) rendering does not fail, and the bar that is displayed    *)
(* has a fill of 0 to 40 cells, fill and padding of 40 cells together, and a  *)
(* percentage of 0 to 100.                                                    *)
C38_Original ==
    /\ call.op \in {"progress", "update"} => call.result # "RangeError"
    /\ (userPrompt.defined /\ userPrompt.kind = "bar") =>
            /\ fill(userPrompt.value) \in 0..Cells
            /\ Cells - fill(userPrompt.value) \in 0..Cells
            /\ userPrompt.value \in 0..100

(* C39: after the key assignment of choice() every choice has a key and no    *)
(* two choices have the same key, for every list whose explicit keys are      *)
(* pairwise distinct: explicit and generated keys mixed, explicit keys that    *)
(* are digits or letters other labels would get.                              *)
C39_KeysDistinct ==
    MenuOpened =>
        /\ Len(stdin.choices) = Len(call.choices)
        /\ \A i \in DOMAIN stdin.choices : stdin.choices[i].key # undefined
        /\ \A i, j \in DOMAIN stdin.choices :
                i # j => stdin.choices[i].key # stdin.choices[j].key

C39_Witness ==
    /\ MenuOpened
    /\ Len(call.choices) = 2
    /\ call.choices[1].key = undefined /\ call.choices[2].key = "1"
    /\ MenuKeys = <<"2", "1">>

\* n asterisks
Stars(n) == [i \in 1..n |-> "*"]

\* What the terminal is to show for a masked prompt with n characters typed
MaskedPrompt(message, n) == PromptText(message, Stars(n))

(* C40: masked prompt confidentiality.  While a masked prompt is pending the  *)
(* tracked overlay text is the message followed by one '*' for each typed     *)
(* character, and what a key press or a log call writes to the terminal is    *)
(* determined by the message and the number of characters typed: two runs     *)
(* that differ in the printable characters typed write the same.              *)
C40_MaskedConfidential ==
    /\ [](stdin.listener = "masked" =>
            userPrompt = MaskedPrompt(stdin.message, Len(stdin.input)))
    /\ [][(call'.op = "key" /\ stdin'.listener = "masked") =>
            out' = <<Write(stdout, ClearLine), Write(stdout, CursorTo),
                     Write(stdout, Text(MaskedPrompt(stdin.message, Len(stdin'.input))))>>]_vars
    /\ [][(call'.op = "key" /\ stdin'.listener = "none") =>
            out' = <<Write(stdout, Terminator)>>]_vars
    /\ []((stdin.listener = "masked" /\ LogCall) =>
            /\ out[Len(out)] =
                    Write(stdout, Text(MaskedPrompt(stdin.message, Len(stdin.input))))
            /\ \A i \in DOMAIN out : out[i].data.prompt.stars \in {Stars(n) : n \in 0..MaxInput})

C40_Witness ==
    /\ stdin.listener = "masked"
    /\ stdin.input = <<"a", "b">>
    /\ LogCall
    /\ out[Len(out)] = Write(stdout, Text(MaskedPrompt("> ", 2)))

====
